---- MODULE Spec2Model ----
(***************************************************************************)
(* Verification model of the Sudoku core: Grid, ConstraintPropagation,     *)
(* Backtracker, AllSolutionsFinder (direct and cooperative mode), Solver   *)
(* and PuzzleGenerator.                                                    *)
(*                                                                         *)
(* The source is parametric in the grid size (gridHelpers.isValidGridSize  *)
(* accepts 4, 9, 16, 25; DIFFICULTY_CLUES has a row for each).  The model  *)
(* instantiates the code at the smallest valid size, 4x4 with 2x2 boxes.   *)
(* Cells are numbered row-major, cell = row * N + col, which is the        *)
(* insertion order of Grid.cells (iterateGrid).                            *)
(***************************************************************************)
EXTENDS Integers, Sequences, FiniteSets, TLC

\* gridHelpers.createPuzzleConfig: boxWidth = boxHeight = sqrt(size)
BoxSize == 2
N == BoxSize * BoxSize
NN == N * N
Cells == 0 .. (NN - 1)
Vals == 1 .. N
\* a cell value of null is written 0
NoValue == 0

RowOf(c) == c \div N
ColOf(c) == c % N

\* gridHelpers.getBoxIndex
getBoxIndex(row, col) == (row \div BoxSize) * BoxSize + (col \div BoxSize)

\* gridHelpers.getRowCoordinates / getColCoordinates / getBoxCoordinates
getRowCoordinates(row) == [i \in 1 .. N |-> row * N + (i - 1)]
getColCoordinates(col) == [i \in 1 .. N |-> (i - 1) * N + col]
getBoxCoordinates(b) ==
  [i \in 1 .. N |->
     ((b \div BoxSize) * BoxSize + ((i - 1) \div BoxSize)) * N
     + ((b % BoxSize) * BoxSize + ((i - 1) % BoxSize))]

Range(s) == {s[i] : i \in 1 .. Len(s)}

\* the same function, with every value computed once
Eager(f) == f @@ <<>>

\* F applied to x: names a value once for the expression F
With(x, F(_)) == F(x)

\* keeps the first occurrence of every element (Map insertion order)
RECURSIVE Dedup(_, _)
Dedup(s, acc) ==
  IF s = <<>> THEN acc
  ELSE IF Head(s) \in Range(acc) THEN Dedup(Tail(s), acc)
       ELSE Dedup(Tail(s), Append(acc, Head(s)))

\* gridHelpers.getPeerCoordinates: row peers, then column peers, then box
\* peers, each coordinate once, the cell itself left out
getPeerCoordinates(c) ==
  Dedup(SelectSeq(getRowCoordinates(RowOf(c))
                  \o getColCoordinates(ColOf(c))
                  \o getBoxCoordinates(getBoxIndex(RowOf(c), ColOf(c))),
                  LAMBDA x : x # c), <<>>)

PeerSeq == [c \in Cells |-> getPeerCoordinates(c)]
PeerSet == [c \in Cells |-> Range(PeerSeq[c])]

\* Grid.getAllUnits: rows, then columns, then boxes
getAllUnits ==
  [u \in 1 .. (3 * N) |->
     IF u <= N THEN getRowCoordinates(u - 1)
     ELSE IF u <= 2 * N THEN getColCoordinates(u - N - 1)
     ELSE getBoxCoordinates(u - 2 * N - 1)]
NumUnits == 3 * N

\* gridHelpers.createEmptyCell
createEmptyCell ==
  [value |-> NoValue, isGiven |-> FALSE, isValid |-> TRUE,
   possibleValues |-> Vals, pencilMarks |-> {}]

\* Grid.initializeCells
initializeCells == [c \in Cells |-> createEmptyCell]

\* gridHelpers.cloneCellsMap: a deep copy, cell by cell
cloneCellState(cell) ==
  [value |-> cell.value, isGiven |-> cell.isGiven, isValid |-> cell.isValid,
   possibleValues |-> cell.possibleValues, pencilMarks |-> cell.pencilMarks]
cloneCellsMap(cells) == Eager([c \in Cells |-> cloneCellState(cells[c])])

\* Grid.getEmptyCells, in Map order
RECURSIVE EmptyFrom(_, _)
EmptyFrom(cells, c) ==
  IF c >= NN THEN <<>>
  ELSE IF cells[c].value = NoValue THEN <<c>> \o EmptyFrom(cells, c + 1)
       ELSE EmptyFrom(cells, c + 1)
getEmptyCells(cells) == EmptyFrom(cells, 0)

\* Grid.setValue
setValue(cells, c, v) ==
  [cells EXCEPT ![c] =
     [@ EXCEPT !.value = v,
               !.pencilMarks = IF v # NoValue THEN {} ELSE @]]

\* Grid.setGiven
setGiven(cells, c, v) ==
  [cells EXCEPT ![c] = [@ EXCEPT !.value = v, !.isGiven = TRUE,
                                 !.pencilMarks = {}]]

\* a placement test that lets no value pass
isValidPlacementNever(cells, c, v) == FALSE

\* Grid.isValidPlacement
isValidPlacement(cells, c, v) == \A p \in PeerSet[c] : cells[p].value # v

\* a getConflicts that looks along the row only
getConflictsRowOnly(cells, c) ==
  IF cells[c].value = NoValue THEN {}
  ELSE {p \in PeerSet[c] : RowOf(p) = RowOf(c)
                           /\ cells[p].value = cells[c].value}

\* Grid.getConflicts (as a set of cells)
getConflicts(cells, c) ==
  IF cells[c].value = NoValue THEN {}
  ELSE {p \in PeerSet[c] : cells[p].value = cells[c].value}

\* Grid.isSolved
isSolved(cells) ==
  /\ \A c \in Cells : cells[c].value # NoValue
  /\ \A u \in 1 .. NumUnits :
       Cardinality({cells[getAllUnits[u][i]].value : i \in 1 .. N}) = N

\* a toSolution that swaps row and column
toSolutionTransposed(cells) ==
  [c \in Cells |-> cells[ColOf(c) * N + RowOf(c)].value]

\* Grid.toSolution: the values of the filled cells, as a function on Cells
toSolution(cells) == [c \in Cells |-> cells[c].value]

\* Array.from(set): the candidate sets are built in ascending order and only
\* ever shrink, so iteration order is ascending
RECURSIVE SetToSeq(_)
SetToSeq(S) ==
  IF S = {} THEN <<>>
  ELSE LET m == CHOOSE x \in S : \A y \in S : x <= y
       IN <<m>> \o SetToSeq(S \ {m})

----------------------------------------------------------------------------
(* Grid.calculatePossibleValues *)

\* step 1: basic elimination based on placed values
calcStep1(cells) ==
  Eager([c \in Cells |->
           IF cells[c].value # NoValue
           THEN [cells[c] EXCEPT !.possibleValues = {}]
           ELSE [cells[c] EXCEPT !.possibleValues =
                   Vals \ {cells[p].value : p \in PeerSet[c]}]])

\* step 2, first loop: a cell with one candidate removes it from its peers
RECURSIVE calcNaked(_, _)
calcNaked(cells, c) ==
  IF c >= NN THEN cells
  ELSE IF cells[c].value = NoValue /\ Cardinality(cells[c].possibleValues) = 1
       THEN LET forcedValue == CHOOSE v \in cells[c].possibleValues : TRUE
            IN calcNaked(
                 Eager([p \in Cells |->
                          IF p \in PeerSet[c] /\ cells[p].value = NoValue
                          THEN [cells[p] EXCEPT
                                  !.possibleValues = @ \ {forcedValue}]
                          ELSE cells[p]]),
                 c + 1)
       ELSE calcNaked(cells, c + 1)

\* step 2, second loop: a value with one place left in a unit is forced there;
\* k enumerates (unit, value) pairs in loop order
RECURSIVE calcHidden(_, _)
calcHidden(cells, k) ==
  IF k >= NumUnits * N THEN cells
  ELSE
    LET unit == getAllUnits[(k \div N) + 1]
        value == (k % N) + 1
        placed == \E i \in 1 .. N : cells[unit[i]].value = value
        possibleCells == {i \in 1 .. N :
                            /\ cells[unit[i]].value = NoValue
                            /\ value \in cells[unit[i]].possibleValues}
        forcedCell == unit[CHOOSE i \in possibleCells : TRUE]
    IN IF placed THEN calcHidden(cells, k + 1)
       ELSE IF /\ Cardinality(possibleCells) = 1
               /\ Cardinality(cells[forcedCell].possibleValues) > 1
            THEN calcHidden(
                   [cells EXCEPT ![forcedCell].possibleValues = {value}],
                   k + 1)
            ELSE calcHidden(cells, k + 1)

\* the while (changed) loop: every change of the loop body changes a
\* candidate set, so "changed" is "the pass altered the cells"
RECURSIVE calcLoop(_)
calcLoop(cells) ==
  With(calcHidden(calcNaked(cells, 0), 0), LAMBDA next :
    IF next = cells THEN cells ELSE calcLoop(next))

\* a recalculation that hands every empty cell the full candidate set
calculatePossibleValuesAfresh(cells) ==
  [c \in Cells |->
     [cells[c] EXCEPT !.possibleValues =
        IF cells[c].value # NoValue THEN {} ELSE Vals]]

\* a calculation that keeps only the least candidate of every empty cell
calculatePossibleValuesLeast(cells) ==
  With(calcLoop(calcStep1(cells)), LAMBDA g :
    [c \in Cells |->
       IF g[c].possibleValues = {} THEN g[c]
       ELSE [g[c] EXCEPT !.possibleValues =
               {CHOOSE v \in @ : \A x \in g[c].possibleValues : v <= x}]])

calculatePossibleValues(cells) == calcLoop(calcStep1(cells))

----------------------------------------------------------------------------
(* ConstraintPropagation *)

\* eliminateFromPeers: stops at the first peer left empty-handed; the peers
\* after it keep the value
RECURSIVE elimFrom(_, _, _, _)
elimFrom(cells, peers, i, value) ==
  IF i > Len(peers) THEN [ok |-> TRUE, cells |-> cells]
  ELSE LET peer == peers[i]
       IN IF value \in cells[peer].possibleValues
          THEN LET next == [cells EXCEPT ![peer].possibleValues = @ \ {value}]
               IN IF /\ next[peer].possibleValues = {}
                     /\ next[peer].value = NoValue
                  THEN [ok |-> FALSE, cells |-> next]
                  ELSE elimFrom(next, peers, i + 1, value)
          ELSE elimFrom(cells, peers, i + 1, value)

eliminateFromPeers(cells, c, value) == elimFrom(cells, PeerSeq[c], 1, value)

\* strategy 1 (naked singles) over the list of cells that were empty when
\* the loop started
RECURSIVE propNaked(_, _, _, _)
propNaked(cells, list, i, changed) ==
  IF i > Len(list) THEN [ok |-> TRUE, cells |-> cells, changed |-> changed]
  ELSE LET c == list[i]
           size == Cardinality(cells[c].possibleValues)
       IN IF size = 0
          THEN [ok |-> FALSE, cells |-> cells, changed |-> changed]
          ELSE IF size = 1
               THEN LET value == CHOOSE v \in cells[c].possibleValues : TRUE
                    IN With(eliminateFromPeers(setValue(cells, c, value),
                                               c, value), LAMBDA e :
                         IF ~e.ok
                         THEN [ok |-> FALSE, cells |-> e.cells,
                               changed |-> changed]
                         ELSE propNaked(e.cells, list, i + 1, TRUE))
               ELSE propNaked(cells, list, i + 1, changed)

\* strategy 2 (hidden singles); k enumerates (unit, value) in loop order,
\* the iterations from k up to kEnd are run
RECURSIVE propHiddenTo(_, _, _, _)
propHiddenTo(cells, k, kEnd, changed) ==
  IF k >= kEnd
  THEN [ok |-> TRUE, cells |-> cells, changed |-> changed]
  ELSE
    LET unit == getAllUnits[(k \div N) + 1]
        value == (k % N) + 1
        placed == \E i \in 1 .. N : cells[unit[i]].value = value
        possibleCells == {i \in 1 .. N :
                            /\ cells[unit[i]].value = NoValue
                            /\ value \in cells[unit[i]].possibleValues}
        cell == unit[CHOOSE i \in possibleCells : TRUE]
    IN IF placed THEN propHiddenTo(cells, k + 1, kEnd, changed)
       ELSE IF possibleCells = {}
            THEN [ok |-> FALSE, cells |-> cells, changed |-> changed]
            ELSE IF Cardinality(possibleCells) = 1
                 THEN With(eliminateFromPeers(setValue(cells, cell, value),
                                              cell, value), LAMBDA e :
                        IF ~e.ok
                        THEN [ok |-> FALSE, cells |-> e.cells,
                              changed |-> changed]
                        ELSE propHiddenTo(e.cells, k + 1, kEnd, TRUE))
                 ELSE propHiddenTo(cells, k + 1, kEnd, changed)

propHidden(cells, k, changed) == propHiddenTo(cells, k, NumUnits * N, changed)

\* ConstraintPropagation.propagate: [ok, cells]; on failure cells is the
\* partially mutated grid the code leaves behind
RECURSIVE propagate(_)
propagate(cells) ==
  With(propNaked(cells, getEmptyCells(cells), 1, FALSE), LAMBDA n :
    IF ~n.ok THEN [ok |-> FALSE, cells |-> n.cells]
    ELSE With(propHidden(n.cells, 0, n.changed), LAMBDA h :
           IF ~h.ok THEN [ok |-> FALSE, cells |-> h.cells]
           ELSE IF h.changed
                THEN propagate(calculatePossibleValues(h.cells))
                ELSE [ok |-> TRUE, cells |-> h.cells]))

----------------------------------------------------------------------------
(* Search heuristics, shared by Backtracker and AllSolutionsFinder *)

\* selectNextCell: scan of the empty cells keeping the first strict minimum,
\* leaving the loop at a count of 1; sel = -1 stands for null
RECURSIVE selectScan(_, _, _, _, _)
selectScan(cells, list, i, minCount, selected) ==
  IF i > Len(list) THEN selected
  ELSE LET count == Cardinality(cells[list[i]].possibleValues)
       IN IF count < minCount
          THEN IF count = 1 THEN list[i]
               ELSE selectScan(cells, list, i + 1, count, list[i])
          ELSE selectScan(cells, list, i + 1, minCount, selected)

\* a selectNextCell that takes the first empty cell whatever its candidates
selectNextCellFirst(cells) ==
  IF getEmptyCells(cells) = <<>> THEN 0 - 1 ELSE getEmptyCells(cells)[1]

\* a selectNextCell that never finds a cell
selectNextCellNone(cells) == 0 - 1

NoCell == -1
selectNextCell(cells) ==
  selectScan(cells, getEmptyCells(cells), 1, N + 1, NoCell)

\* countConstraints
countConstraints(cells, c, value) ==
  Cardinality({p \in PeerSet[c] :
                 cells[p].value = NoValue /\ value \in cells[p].possibleValues})

\* Array.prototype.sort is stable: ascending count, ties in array order
RECURSIVE sortByCount(_, _, _)
sortByCount(cells, c, vals) ==
  IF vals = <<>> THEN <<>>
  ELSE LET best == CHOOSE i \in 1 .. Len(vals) :
                     \A j \in 1 .. Len(vals) :
                       \/ countConstraints(cells, c, vals[i])
                            < countConstraints(cells, c, vals[j])
                       \/ /\ countConstraints(cells, c, vals[i])
                               = countConstraints(cells, c, vals[j])
                          /\ i <= j
       IN <<vals[best]>>
          \o sortByCount(cells, c,
               [j \in 1 .. (Len(vals) - 1) |->
                  IF j < best THEN vals[j] ELSE vals[j + 1]])

\* an orderValues that hands back no candidate
orderValuesNone(cells, c) == <<>>

\* an orderValues that keeps the first candidate only
orderValuesFirstOnly(cells, c) ==
  SubSeq(SetToSeq(cells[c].possibleValues), 1, 1)

\* orderValues
orderValues(cells, c) ==
  LET values == SetToSeq(cells[c].possibleValues)
  IN IF Len(values) <= 2 THEN values ELSE sortByCount(cells, c, values)

----------------------------------------------------------------------------
(* Search state.  A search record s holds the fields of the searcher that   *)
(* runs the current operation (AllSolutionsFinder or Backtracker: solutions,*)
(* nodesExplored), the live board, the stack of the search (the call stack  *)
(* of searchRecursive / backtrack, or the explicit stack of searchAsync),   *)
(* the control position pc and the value ret a call has just returned.      *)
(* found logs every solution at the moment it is recorded; stopped names    *)
(* the branch that ended the search.                                        *)
(* An options record o has maxSolutions, maxNodes and finder (TRUE for      *)
(* AllSolutionsFinder, FALSE for Backtracker).  tu says whether             *)
(* performance.now() - startTime >= maxTimeMs at the time of the check.     *)

\* DEFAULT_OPTIONS.maxNodes and Backtracker's default maxNodes
DefaultMaxNodes == 10000000
\* DEFAULT_OPTIONS.maxSolutions
DefaultMaxSolutions == 1000

\* the source yields every YIELD_INTERVAL = 1000 iterations; the model
\* scales the interval down so that suspensions happen on 4x4 boards
YIELD_INTERVAL == 2

\* Grid.createSnapshot / Grid.restoreSnapshot: both deep-copy the cells
\* a restoreSnapshot that brings back the values and leaves every empty cell
\* all the candidates
restoreSnapshotValuesOnly(snapshot) ==
  [c \in Cells |->
     [snapshot[c] EXCEPT !.possibleValues =
        IF snapshot[c].value = NoValue THEN Vals ELSE {}]]

createSnapshot(cells) == cloneCellsMap(cells)
restoreSnapshot(snapshot) == cloneCellsMap(snapshot)

\* a shouldStop that looks at the clock only
shouldStopClockOnly(s, o, tu) == tu

\* AllSolutionsFinder.shouldStop / Backtracker.shouldStop
shouldStop(s, o, tu) ==
  \/ Len(s.solutions) >= o.maxSolutions
  \/ s.nodesExplored >= o.maxNodes
  \/ tu

\* which disjunct of shouldStop stopped the search
stopCause(s, o, tu) ==
  IF Len(s.solutions) >= o.maxSolutions THEN "solutions"
  ELSE IF s.nodesExplored >= o.maxNodes THEN "nodes"
  ELSE "time"

\* AllSolutionsFinder.checkLimitsReached
checkLimitsReached(s, o, tu) == s.nodesExplored >= o.maxNodes \/ tu

\* a buildResult that hands back no solutions after a limit stop
buildResultDropsPartial(s, limitReached) ==
  [solutions |-> IF limitReached THEN <<>> ELSE s.solutions,
   totalFound |-> IF limitReached THEN 0 ELSE Len(s.solutions),
   searchLimitReached |-> limitReached,
   nodesExplored |-> s.nodesExplored]

\* AllSolutionsFinder.buildResult
buildResult(s, limitReached) ==
  [solutions |-> s.solutions,
   totalFound |-> Len(s.solutions),
   searchLimitReached |-> limitReached,
   nodesExplored |-> s.nodesExplored]

\* a search that never looks at the abort signal
abortRequestedNever(s) == FALSE

\* options.abortSignal?.aborted
abortRequested(s) == s.aborted

mark(s, cause) == IF s.stopped = "none" THEN cause ELSE s.stopped

Top(stack) == stack[Len(stack)]
Pop(stack) == SubSeq(stack, 1, Len(stack) - 1)

\* searchRecursive / backtrack, from entry to the for loop (or to a return).
\* cb: the onProgress callback runs at this node and aborts the signal.
\* entry, in a frame, records the grid the call received.
searchRecursiveEntry(s, o, tu, cb) ==
  IF abortRequested(s)
  THEN [s EXCEPT !.ret = FALSE, !.pc = "ret", !.stopped = mark(s, "abort")]
  ELSE IF shouldStop(s, o, tu)
  THEN [s EXCEPT !.ret = FALSE, !.pc = "ret",
                 !.stopped = mark(s, stopCause(s, o, tu))]
  ELSE
    LET s1 == [s EXCEPT !.nodesExplored = @ + 1,
                        !.aborted = @ \/ (cb /\ o.finder)]
        cell == selectNextCell(s1.work)
    IN IF isSolved(s1.work)
       THEN LET sols == Append(s1.solutions, toSolution(s1.work))
            IN [s1 EXCEPT !.solutions = sols,
                          !.found = Append(@, toSolution(s1.work)),
                          !.ret = Len(sols) < o.maxSolutions,
                          !.pc = "ret",
                          !.stopped = IF Len(sols) < o.maxSolutions THEN @
                                      ELSE mark(s1, "solutions")]
       ELSE IF cell = NoCell
       THEN [s1 EXCEPT !.ret = TRUE, !.pc = "ret"]
       ELSE IF o.finder /\ s1.work[cell].possibleValues = {}
       THEN [s1 EXCEPT !.ret = TRUE, !.pc = "ret"]
       ELSE [s1 EXCEPT !.stack = Append(@,
                          [cell |-> cell,
                           orderedValues |-> orderValues(s1.work, cell),
                           valueIndex |-> 1,
                           snapshot |-> createSnapshot(s1.work),
                           entry |-> s1.work]),
                       !.pc = "loop"]

\* one turn of the for loop over orderedValues: either the loop is over and
\* the call returns true, or the next value is tried up to the recursive call
searchRecursiveLoop(s) ==
  LET f == Top(s.stack)
      d == Len(s.stack)
  IN IF f.valueIndex > Len(f.orderedValues)
     THEN [s EXCEPT !.stack = Pop(@), !.ret = TRUE, !.pc = "ret"]
     ELSE
       LET snapshot == createSnapshot(s.work)
           value == f.orderedValues[f.valueIndex]
       IN With(propagate(calculatePossibleValues(
                           setValue(s.work, f.cell, value))), LAMBDA p :
            IF p.ok
            THEN [s EXCEPT !.work = p.cells,
                           !.stack[d].snapshot = snapshot,
                           !.pc = "call"]
            ELSE [s EXCEPT !.work = restoreSnapshot(snapshot),
                           !.stack[d].snapshot = snapshot,
                           !.stack[d].valueIndex = @ + 1])

\* a return that goes on with the next value whatever the call returned
searchRecursiveReturnContinues(s) ==
  IF s.stack = <<>>
  THEN [s EXCEPT !.pc = "return",
                 !.stopped = mark(s, "exhausted")]
  ELSE [s EXCEPT !.work = restoreSnapshot(Top(s.stack).snapshot),
                 !.stack[Len(s.stack)].valueIndex = @ + 1,
                 !.pc = "loop"]

\* the recursive call has returned ret into the loop of the frame below;
\* with an empty stack the outermost call has returned to find / search
searchRecursiveReturn(s) ==
  IF s.stack = <<>>
  THEN [s EXCEPT !.pc = "return",
                 !.stopped = mark(s, "exhausted")]
  ELSE LET f == Top(s.stack)
           d == Len(s.stack)
       IN IF ~s.ret
          THEN [s EXCEPT !.work = restoreSnapshot(f.snapshot),
                         !.stack = Pop(@)]
          ELSE [s EXCEPT !.work = restoreSnapshot(f.snapshot),
                         !.stack[d].valueIndex = @ + 1,
                         !.pc = "loop"]

Reverse(seq) == [i \in 1 .. Len(seq) |-> seq[Len(seq) + 1 - i]]

\* a searchAsync whose first frame takes the candidates from the far end
searchAsyncInitReversed(s) ==
  With(calculatePossibleValues(s.work), LAMBDA g :
  With(selectNextCell(g), LAMBDA initialCell :
    IF initialCell = NoCell
    THEN [s EXCEPT !.work = g, !.pc = "return",
                   !.stopped = mark(s, "exhausted")]
    ELSE [s EXCEPT !.work = g,
                   !.stack = <<[cell |-> initialCell,
                                orderedValues |->
                                  Reverse(orderValues(g, initialCell)),
                                valueIndex |-> 1,
                                snapshot |-> createSnapshot(g)]>>,
                   !.iterations = 0,
                   !.pc = "ahead"]))

\* searchAsync up to the while loop: the first frame
searchAsyncInit(s) ==
  With(calculatePossibleValues(s.work), LAMBDA g :
  With(selectNextCell(g), LAMBDA initialCell :
    IF initialCell = NoCell
    THEN [s EXCEPT !.work = g, !.pc = "return",
                   !.stopped = mark(s, "exhausted")]
    ELSE [s EXCEPT !.work = g,
                   !.stack = <<[cell |-> initialCell,
                                orderedValues |-> orderValues(g, initialCell),
                                valueIndex |-> 1,
                                snapshot |-> createSnapshot(g)]>>,
                   !.iterations = 0,
                   !.pc = "ahead"]))

\* the body of the while loop of searchAsync after the yield point.  The
\* frame's grid is only cloned and then overwritten from the frame's
\* snapshot, so a frame keeps the snapshot alone.
searchAsyncBody(s, o, cb) ==
  LET current == Top(s.stack)
      d == Len(s.stack)
  IN IF current.valueIndex > Len(current.orderedValues)
     THEN [s EXCEPT !.stack = Pop(@), !.pc = "ahead"]
     ELSE
       LET value == current.orderedValues[current.valueIndex]
           s1 == [s EXCEPT !.nodesExplored = @ + 1,
                           !.aborted = @ \/ cb,
                           !.stack[d].valueIndex = @ + 1,
                           !.pc = "ahead"]
       IN With(propagate(calculatePossibleValues(
                           setValue(restoreSnapshot(current.snapshot),
                                    current.cell, value))), LAMBDA p :
            IF ~p.ok THEN s1
            ELSE IF isSolved(p.cells)
            THEN With(toSolution(p.cells), LAMBDA solution :
                   IF Len(s1.solutions) + 1 >= o.maxSolutions
                   THEN [s1 EXCEPT !.solutions = Append(@, solution),
                                   !.found = Append(@, solution),
                                   !.pc = "return",
                                   !.stopped = mark(s1, "solutions")]
                   ELSE [s1 EXCEPT !.solutions = Append(@, solution),
                                   !.found = Append(@, solution)])
            ELSE With(selectNextCell(p.cells), LAMBDA nextCell :
                   IF /\ nextCell # NoCell
                      /\ p.cells[nextCell].possibleValues # {}
                   THEN [s1 EXCEPT !.stack = Append(@,
                            [cell |-> nextCell,
                             orderedValues |->
                               orderValues(p.cells, nextCell),
                             valueIndex |-> 1,
                             snapshot |-> createSnapshot(p.cells)])]
                   ELSE s1))

\* the head of the while loop of searchAsync: loop condition, abort check,
\* limit check, iteration count; then either the yield or the body
searchAsyncHead(s, o, tu, cb) ==
  IF s.stack = <<>>
  THEN [s EXCEPT !.pc = "return", !.stopped = mark(s, "exhausted")]
  ELSE IF abortRequested(s)
  THEN [s EXCEPT !.pc = "return", !.stopped = mark(s, "abort")]
  ELSE IF shouldStop(s, o, tu)
  THEN [s EXCEPT !.pc = "return", !.stopped = mark(s, stopCause(s, o, tu))]
  ELSE LET s1 == [s EXCEPT !.iterations = @ + 1]
       IN IF s1.iterations % YIELD_INTERVAL = 0
          THEN [s1 EXCEPT !.pc = "ayield"]
          ELSE searchAsyncBody(s1, o, cb)

----------------------------------------------------------------------------
(* Input boards.  Every board is a state the store can be in: clues loaded  *)
(* as givens (loadFromString), possibly one value entered by the user       *)
(* (setCell) and a pencil mark on an empty cell (togglePencilMark).         *)

\* a complete valid 4x4 grid, row-major
BaseSolution == <<1, 2, 3, 4,  3, 4, 1, 2,  2, 1, 4, 3,  4, 3, 2, 1>>

\* the cells that may carry a given, and the cell the user may fill
ClueCells == {4, 7, 8, 12, 14}
UserCells == {11}

\* at most MaxDropped of the clue cells are left empty
MaxDropped == 1

Inputs ==
  [keep : {K \in SUBSET ClueCells :
             Cardinality(ClueCells \ K) <= MaxDropped},
   cell : UserCells,
   user : 0 .. N]

\* puzzleStore.loadFromString
RECURSIVE loadGivens(_, _, _)
loadGivens(cells, keep, c) ==
  IF c >= NN THEN cells
  ELSE IF c \in keep
       THEN loadGivens(setGiven(cells, c, BaseSolution[c + 1]), keep, c + 1)
       ELSE loadGivens(cells, keep, c + 1)

\* Grid.togglePencilMark
togglePencilMark(cells, c, v) ==
  IF cells[c].value # NoValue THEN cells
  ELSE [cells EXCEPT ![c].pencilMarks =
          IF v \in @ THEN @ \ {v} ELSE @ \cup {v}]

\* puzzleStore.loadFromString, then setCell on a user cell, then a pencil mark
LoadBoard(in) ==
  With(calculatePossibleValues(loadGivens(initializeCells, in.keep, 0)),
       LAMBDA loaded :
  With(IF in.user = 0 THEN loaded
       ELSE calculatePossibleValues(setValue(loaded, in.cell, in.user)),
       LAMBDA edited :
  With(getEmptyCells(edited), LAMBDA empties :
    IF empties = <<>> THEN edited
    ELSE togglePencilMark(edited, empties[1], 1))))

----------------------------------------------------------------------------
(* State *)

VARIABLES
  input,          \* what the caller loaded into its Grid
  board,          \* the cells of the caller's Grid when the operation was
                  \* called
  heap,           \* the Grid objects: heap.caller is the caller's Grid,
                  \* heap.work the Grid made by clone()
  wref,           \* the object the operation's workingGrid refers to
  op,             \* the Solver operation in progress
  opts,           \* its merged options
  stack, solutions, nodesExplored, iterations, pc, ret,
  aborted,        \* options.abortSignal.aborted
  timeUp,         \* performance.now() - startTime >= maxTimeMs
  result,         \* what the operation returned
  found,          \* log of the solutions recorded by the current search
  stopped,        \* the branch that ended the current search
  abortMark,      \* nodesExplored and solution count when abort was set
  prev,           \* the result of the caller's previous operation
  gen,            \* the PuzzleGenerator's generate call: its position and
                  \* the locals of removeCells
  store,          \* the puzzleStore: cells, history, historyIndex, solutions
  prop            \* a ConstraintPropagation.propagate call in progress

vars == <<input, board, heap, wref, op, opts, stack, solutions, nodesExplored,
          iterations, pc, ret, aborted, timeUp, result, found, stopped,
          abortMark, prev, gen, store, prop>>

NoResult == [op |-> "none"]
NoGen == [pc |-> "none"]
NoStore == [pc |-> "none"]
NoProp == [pc |-> "none"]
NoMark == [set |-> FALSE, nodes |-> 0, sols |-> 0]
NoOpts == [maxSolutions |-> DefaultMaxSolutions,
           maxNodes |-> DefaultMaxNodes, finder |-> TRUE]

\* the node budgets a caller passes: a small one and the default
NodeBudget == 3
NodeBudgets == {NodeBudget, DefaultMaxNodes}
\* the solution budgets a caller passes
MaxSolutionsOpt == 3

\* a clone that hands back the Grid it was called on
cloneAlias(h, ref) == [ref |-> ref, heap |-> h]

\* Grid.clone: a new Grid object holding a deep copy of the cells
clone(h, ref) ==
  [ref |-> "work", heap |-> [h EXCEPT !.work = cloneCellsMap(h[ref])]]

W == heap[wref]

\* the search record of the current state
S ==
  [work |-> W, stack |-> stack, solutions |-> solutions, found |-> found,
   nodesExplored |-> nodesExplored, iterations |-> iterations, pc |-> pc,
   ret |-> ret, aborted |-> aborted, stopped |-> stopped]

\* AllSolutionsFinder.reset, and the same assignments in Backtracker.search
reset(s) ==
  [s EXCEPT !.solutions = <<>>, !.nodesExplored = 0, !.found = <<>>,
            !.stack = <<>>, !.iterations = 0, !.ret = TRUE,
            !.stopped = "none"]

\* the state after a step: n is the new search record, h and r the heap
\* and the working reference the step leaves
Becomes(n, h, r) ==
  /\ heap' = [h EXCEPT ![r] = n.work]
  /\ wref' = r
  /\ stack' = n.stack
  /\ solutions' = n.solutions
  /\ found' = n.found
  /\ nodesExplored' = n.nodesExplored
  /\ iterations' = n.iterations
  /\ pc' = n.pc
  /\ ret' = n.ret
  /\ aborted' = n.aborted
  /\ stopped' = n.stopped
  /\ abortMark' = IF n.aborted /\ ~aborted
                  THEN [set |-> TRUE, nodes |-> n.nodesExplored,
                        sols |-> Len(solutions)]
                  ELSE abortMark

Init ==
  /\ input \in Inputs
  /\ heap = [caller |-> LoadBoard(input), work |-> initializeCells]
  /\ board = heap.caller
  /\ wref = "work"
  /\ op = "none"
  /\ opts = NoOpts
  /\ stack = <<>>
  /\ solutions = <<>>
  /\ nodesExplored = 0
  /\ iterations = 0
  /\ pc = "idle"
  /\ ret = TRUE
  /\ aborted = FALSE
  /\ timeUp = FALSE
  /\ result = NoResult
  /\ found = <<>>
  /\ stopped = "none"
  /\ abortMark = NoMark
  /\ prev = NoResult
  /\ gen = NoGen
  /\ store = NoStore
  /\ prop = NoProp

----------------------------------------------------------------------------
(* Solver operations *)

\* Solver.solve up to the backtracking phase, then Backtracker.search up to
\* the first call of backtrack.  r is the new search record, h the heap.
solveStart(s, h) ==
  With(clone(h, "caller"), LAMBDA c :
  With(propagate(calculatePossibleValues(c.heap[c.ref])), LAMBDA p :
  With(reset(s), LAMBDA s0 :
    IF ~p.ok
    THEN [ref |-> c.ref, heap |-> c.heap,
          s |-> [s0 EXCEPT !.work = p.cells, !.pc = "done"],
          solution |-> <<>>]
    ELSE IF isSolved(p.cells)
    THEN [ref |-> c.ref, heap |-> c.heap,
          s |-> [s0 EXCEPT !.work = p.cells, !.pc = "done"],
          solution |-> <<toSolution(p.cells)>>]
    ELSE With(clone([c.heap EXCEPT ![c.ref] = p.cells], c.ref), LAMBDA c2 :
           [ref |-> c2.ref, heap |-> c2.heap,
            s |-> [s0 EXCEPT
                     !.work = calculatePossibleValues(c2.heap[c2.ref]),
                     !.pc = "call"],
            solution |-> <<>>]))))

\* Solver.solve (which = "solve") and Solver.isSolvable ("isSolvable"), called
\* with the Grid heap h holds as the caller's
StartSolveOn(which, h) ==
  /\ pc = "idle"
  /\ prev' = prev
  /\ \E st \in {solveStart(S, h)} :
        /\ Becomes(st.s, st.heap, st.ref)
        /\ result' = IF st.s.pc = "done"
                     THEN [op |-> which, solution |-> st.solution,
                           solvable |-> st.solution # <<>>]
                     ELSE NoResult
  /\ op' = which
  /\ opts' = [maxSolutions |-> 1, maxNodes |-> DefaultMaxNodes,
              finder |-> FALSE]
  /\ UNCHANGED <<gen, input, timeUp, prop>>

StartSolve(which) ==
  /\ StartSolveOn(which, heap)
  /\ UNCHANGED <<board, store>>

\* AllSolutionsFinder.find / findAsync up to the search
findStart(s, h, async) ==
  With(clone(h, "caller"), LAMBDA c :
  With(propagate(calculatePossibleValues(c.heap[c.ref])), LAMBDA p :
  With([reset(s) EXCEPT !.work = p.cells], LAMBDA s0 :
    IF ~p.ok
    THEN [ref |-> c.ref, heap |-> c.heap,
          s |-> [s0 EXCEPT !.pc = "done", !.stopped = "exhausted"]]
    ELSE IF isSolved(p.cells)
    THEN With(toSolution(p.cells), LAMBDA solution :
           [ref |-> c.ref, heap |-> c.heap,
            s |-> [s0 EXCEPT !.solutions = <<solution>>,
                             !.found = <<solution>>,
                             !.pc = "done", !.stopped = "exhausted"]])
    ELSE [ref |-> c.ref, heap |-> c.heap,
          s |-> IF async THEN searchAsyncInit(s0)
                ELSE [s0 EXCEPT !.pc = "call"]])))

\* what the Solver operation hands back: the AllSolutionsResult, and for
\* hasUniqueSolution the test totalFound === 1
findResult(which, s, limitReached) ==
  With(buildResult(s, limitReached), LAMBDA r :
    [op |-> which,
     solutions |-> r.solutions,
     totalFound |-> r.totalFound,
     searchLimitReached |-> r.searchLimitReached,
     nodesExplored |-> r.nodesExplored,
     unique |-> r.totalFound = 1])

\* Solver.findAllSolutions ("find"), Solver.findAllSolutionsAsync
\* ("findAsync") with the caller's budgets and abort signal (pre: the signal
\* is already aborted), and Solver.hasUniqueSolution ("hasUnique")
StartFind(which, o, pre, h) ==
  /\ \E st \in {findStart([S EXCEPT !.aborted = pre], h,
                             which = "findAsync")} :
        /\ Becomes(st.s, st.heap, st.ref)
        /\ result' = IF st.s.pc = "done"
                     THEN findResult(which, st.s, FALSE)
                     ELSE NoResult
  /\ op' = which
  /\ opts' = o
  /\ timeUp' = FALSE

CallerOptions ==
  [maxSolutions : 1 .. MaxSolutionsOpt, maxNodes : NodeBudgets,
   finder : {TRUE}]

FindAllSolutions ==
  /\ pc = "idle"
  /\ \E o \in CallerOptions, pre \in BOOLEAN :
       StartFind("find", o, pre, heap)
  /\ UNCHANGED <<gen, input, board, prev>>
  /\ UNCHANGED <<store, prop>>

FindAllSolutionsAsync ==
  /\ pc = "idle"
  /\ \E o \in CallerOptions, pre \in BOOLEAN :
       StartFind("findAsync", o, pre, heap)
  /\ UNCHANGED <<gen, input, board, prev>>
  /\ UNCHANGED <<store, prop>>

\* the caller of a finished findAllSolutions that ran to its end calls
\* findAllSolutionsAsync on the same Solver, grid and options
FindAllSolutionsAsyncAgain ==
  /\ pc = "done"
  /\ op = "find"
  /\ stopped \in {"exhausted", "solutions"}
  /\ ~aborted
  /\ \E st \in {findStart([S EXCEPT !.aborted = FALSE], heap, TRUE)} :
        /\ Becomes(st.s, st.heap, st.ref)
        /\ result' = IF st.s.pc = "done"
                     THEN findResult("findAsync", st.s, FALSE)
                     ELSE NoResult
  /\ op' = "findAsync"
  /\ prev' = result
  /\ timeUp' = FALSE
  /\ UNCHANGED <<gen, input, board, opts>>
  /\ UNCHANGED <<store, prop>>

\* Solver.hasUniqueSolution on the grid of heap h
hasUniqueSolution(h) ==
  StartFind("hasUnique",
            [maxSolutions |-> 2, maxNodes |-> DefaultMaxNodes,
             finder |-> TRUE], FALSE, h)

HasUniqueSolution ==
  /\ pc = "idle"
  /\ hasUniqueSolution(heap)
  /\ UNCHANGED <<gen, input, board, prev>>
  /\ UNCHANGED <<store, prop>>

\* Solver.getConfidentMoves, the loop over getEmptyCells: the moves as a
\* function from cell to value
collectMoves(cells) ==
  [x \in {y \in Cells : /\ cells[y].value = NoValue
                        /\ Cardinality(cells[y].possibleValues) = 1} |->
     CHOOSE v \in cells[x].possibleValues : TRUE]

\* Solver.getConfidentMoves
GetConfidentMoves ==
  /\ pc = "idle"
  /\ \E c \in {clone(heap, "caller")} :
       \E p \in {propagate(calculatePossibleValues(c.heap[c.ref]))} :
         /\ heap' = [c.heap EXCEPT ![c.ref] = p.cells]
         /\ wref' = c.ref
         /\ result' =
              [op |-> "getConfidentMoves",
               moves |-> collectMoves(p.cells)]
  /\ op' = "getConfidentMoves"
  /\ pc' = "done"
  /\ UNCHANGED <<gen, input, board, opts, stack, solutions, nodesExplored, iterations,
                 ret, aborted, timeUp, found, stopped, abortMark, prev>>
  /\ UNCHANGED <<store, prop>>

\* Solver.getHint
GetHint ==
  /\ pc = "idle"
  /\ \E cellId \in Cells :
       \E c \in {clone(heap, "caller")} :
         \E g \in {calculatePossibleValues(c.heap[c.ref])} :
           /\ heap' = [c.heap EXCEPT ![c.ref] = g]
           /\ wref' = c.ref
           /\ result' =
                IF g[cellId].value # NoValue
                THEN [op |-> "getHint", cell |-> cellId,
                      possibleValues |-> <<>>, confident |-> FALSE]
                ELSE [op |-> "getHint", cell |-> cellId,
                      possibleValues |-> SetToSeq(g[cellId].possibleValues),
                      confident |->
                        Cardinality(g[cellId].possibleValues) = 1]
  /\ op' = "getHint"
  /\ pc' = "done"
  /\ UNCHANGED <<gen, input, board, opts, stack, solutions, nodesExplored, iterations,
                 ret, aborted, timeUp, found, stopped, abortMark, prev>>
  /\ UNCHANGED <<store, prop>>

\* Solver.validate: reads the caller's grid, makes no copy
Validate ==
  /\ pc = "idle"
  /\ LET conflicts == SelectSeq([i \in 1 .. NN |-> i - 1],
                         LAMBDA x : /\ heap.caller[x].value # NoValue
                                    /\ getConflicts(heap.caller, x) # {})
     IN result' = [op |-> "validate", valid |-> conflicts = <<>>,
                   conflicts |-> conflicts]
  /\ op' = "validate"
  /\ pc' = "done"
  /\ UNCHANGED <<gen, input, board, heap, wref, opts, stack, solutions, nodesExplored,
                 iterations, ret, aborted, timeUp, found, stopped, abortMark,
                 prev>>
  /\ UNCHANGED <<store, prop>>

Solve == StartSolve("solve")
IsSolvable == StartSolve("isSolvable")

\* only find / findAsync get an onProgress callback from their caller
Callbacks == IF op \in {"find", "findAsync"} THEN BOOLEAN ELSE {FALSE}

\* entry of searchRecursive (find, hasUniqueSolution) or of
\* Backtracker.backtrack (solve, isSolvable): checks, node count, progress
\* callback, solved test, cell selection
DirectCall ==
  /\ pc = "call"
  /\ \E cb \in Callbacks :
       \E n \in {searchRecursiveEntry(S, opts, timeUp, cb)} :
         Becomes(n, heap, wref)
  /\ UNCHANGED <<gen, input, board, op, opts, timeUp, result, prev>>
  /\ UNCHANGED <<store, prop>>

\* one turn of the for loop over the ordered values
DirectLoop ==
  /\ pc = "loop"
  /\ \E n \in {searchRecursiveLoop(S)} : Becomes(n, heap, wref)
  /\ UNCHANGED <<gen, input, board, op, opts, timeUp, result, prev>>
  /\ UNCHANGED <<store, prop>>

\* a call returns to its caller
DirectReturn ==
  /\ pc = "ret"
  /\ \E n \in {searchRecursiveReturn(S)} : Becomes(n, heap, wref)
  /\ UNCHANGED <<gen, input, board, op, opts, timeUp, result, prev>>
  /\ UNCHANGED <<store, prop>>

\* a turn of the while loop of searchAsync, up to the yield if it yields
AsyncStep ==
  /\ pc = "ahead"
  /\ \E cb \in Callbacks :
       \E n \in {searchAsyncHead(S, opts, timeUp, cb)} :
         Becomes(n, heap, wref)
  /\ UNCHANGED <<gen, input, board, op, opts, timeUp, result, prev>>
  /\ UNCHANGED <<store, prop>>

\* the scheduler resumes searchAsync after its setTimeout
AsyncResume ==
  /\ pc = "ayield"
  /\ \E cb \in Callbacks :
       \E n \in {searchAsyncBody(S, opts, cb)} : Becomes(n, heap, wref)
  /\ UNCHANGED <<gen, input, board, op, opts, timeUp, result, prev>>
  /\ UNCHANGED <<store, prop>>

\* while searchAsync is suspended the caller aborts the signal
AbortWhileSuspended ==
  /\ pc = "ayield"
  /\ ~aborted
  /\ Becomes([S EXCEPT !.aborted = TRUE], heap, wref)
  /\ UNCHANGED <<gen, input, board, op, opts, timeUp, result, prev>>
  /\ UNCHANGED <<store, prop>>

\* the clock passes the time budget of the running operation; within one
\* generate call at most MaxTimeouts searches run out of time
MaxTimeouts == 1

Tick ==
  /\ pc \in {"call", "loop", "ret", "ahead", "ayield", "return"}
  /\ ~timeUp
  /\ timeUp' = TRUE
  /\ IF gen.pc = "none" THEN gen' = gen
     ELSE /\ gen.timeouts < MaxTimeouts
          /\ gen' = [gen EXCEPT !.timeouts = @ + 1]
  /\ UNCHANGED <<input, board, heap, wref, op, opts, stack, solutions,
                 nodesExplored, iterations, pc, ret, aborted, result, found,
                 stopped, abortMark, prev>>
  /\ UNCHANGED <<store, prop>>

\* the search has returned: find / findAsync build their result,
\* solve takes the first solution of Backtracker.search
Finish ==
  /\ pc = "return"
  /\ result' = IF op \in {"solve", "isSolvable"}
               THEN [op |-> op,
                     solution |-> IF Len(solutions) > 0
                                  THEN <<solutions[1]>> ELSE <<>>,
                     solvable |-> Len(solutions) > 0]
               ELSE findResult(op, S, checkLimitsReached(S, opts, timeUp))
  /\ pc' = "done"
  /\ UNCHANGED <<gen, input, board, heap, wref, op, opts, stack, solutions,
                 nodesExplored, iterations, ret, aborted, timeUp, found,
                 stopped, abortMark, prev>>
  /\ UNCHANGED <<store, prop>>

Next ==
  \/ Solve
  \/ IsSolvable
  \/ FindAllSolutions
  \/ FindAllSolutionsAsync
  \/ FindAllSolutionsAsyncAgain
  \/ HasUniqueSolution
  \/ GetConfidentMoves
  \/ GetHint
  \/ Validate
  \/ DirectCall
  \/ DirectLoop
  \/ DirectReturn
  \/ AsyncStep
  \/ AsyncResume
  \/ AbortWhileSuspended
  \/ Tick
  \/ Finish

Spec == Init /\ [][Next]_vars

----------------------------------------------------------------------------
(* The Solver operations run to their end, on the boards of Inputs and on   *)
(* the fully empty board.                                                   *)

EmptyBoard == [keep |-> {}, cell |-> CHOOSE c \in UserCells : TRUE, user |-> 0]

\* a board of two clues that leaves the first cell all its candidates
SparseBoard == [keep |-> {7, 14}, cell |-> CHOOSE c \in UserCells : TRUE,
                user |-> 0]

InitLive ==
  /\ input \in Inputs \cup {EmptyBoard}
  /\ heap = [caller |-> LoadBoard(input), work |-> initializeCells]
  /\ board = heap.caller
  /\ wref = "work"
  /\ op = "none"
  /\ opts = NoOpts
  /\ stack = <<>>
  /\ solutions = <<>>
  /\ nodesExplored = 0
  /\ iterations = 0
  /\ pc = "idle"
  /\ ret = TRUE
  /\ aborted = FALSE
  /\ timeUp = FALSE
  /\ result = NoResult
  /\ found = <<>>
  /\ stopped = "none"
  /\ abortMark = NoMark
  /\ prev = NoResult
  /\ gen = NoGen
  /\ store = NoStore
  /\ prop = NoProp

\* an operation has been called and has not returned
running == pc \in {"call", "loop", "ret", "ahead", "ayield", "return"}

\* the steps of the running operation: the synchronous code of the search
\* and of find / solve, and the resumption of a suspended searchAsync
Run ==
  \/ DirectCall
  \/ DirectLoop
  \/ DirectReturn
  \/ AsyncStep
  \/ AsyncResume
  \/ Finish

\* The engine runs synchronous code on until it returns, and the scheduler
\* resumes a suspended searchAsync after its setTimeout.  This is weak
\* fairness of Run, WF_vars(Run), with the enabling condition of Run
\* written out: a step of Run is possible exactly while running.
SpecLive ==
  /\ InitLive
  /\ [][Next]_vars
  /\ ([]<>(~running) \/ []<><<Run>>_vars)

----------------------------------------------------------------------------
(* PuzzleGenerator.  Math.random is an input: every shuffle of a generate   *)
(* call draws its swap positions from a seed, and getTargetClues draws its  *)
(* offset r.                                                                *)

Difficulties == {"EASY", "MEDIUM", "HARD", "EXPERT"}

\* DIFFICULTY_CLUES[difficulty][4]
DIFFICULTY_CLUES ==
  [d \in Difficulties |->
     CASE d = "EASY" -> [min |-> 8, max |-> 10]
       [] d = "MEDIUM" -> [min |-> 6, max |-> 7]
       [] d = "HARD" -> [min |-> 4, max |-> 5]
       [] d = "EXPERT" -> [min |-> 4, max |-> 4]]

\* a target counted from the upper end of the band
getTargetCluesAboveBand(difficulty, r) ==
  r + DIFFICULTY_CLUES[difficulty].max

\* getTargetClues; r is Math.floor(Math.random() * (max - min + 1))
getTargetClues(difficulty, r) == r + DIFFICULTY_CLUES[difficulty].min

\* the seeds of the shuffles
MaxSeed == 2
Seeds == 0 .. MaxSeed

\* shuffleArray (Fisher-Yates): for i from length - 1 down to 1 swap
\* array[i] and array[j], j = Math.floor(Math.random() * (i + 1)); the
\* draw of a shuffle with seed sd is j = sd % (i + 1).  Indices are
\* 0-based as in the source, the sequence is 1-based.
RECURSIVE shuffleFrom(_, _, _)
shuffleFrom(array, i, sd) ==
  IF i < 1 THEN array
  ELSE LET j == sd % (i + 1)
       IN shuffleFrom([array EXCEPT ![i + 1] = array[j + 1],
                                    ![j + 1] = array[i + 1]],
                      i - 1, sd)

shuffleArray(array, sd) == shuffleFrom(array, Len(array) - 1, sd)

\* every array shuffleArray can leave: the draw j of each turn is any of
\* 0 .. i
RECURSIVE shuffleOutcomesFrom(_, _)
shuffleOutcomesFrom(array, i) ==
  IF i < 1 THEN {array}
  ELSE UNION {shuffleOutcomesFrom([array EXCEPT ![i + 1] = array[j + 1],
                                                ![j + 1] = array[i + 1]],
                                  i - 1) : j \in 0 .. i}

shuffleOutcomes(array) == shuffleOutcomesFrom(array, Len(array) - 1)

\* the last loop of removeCells: the remaining values become givens
RECURSIVE markGivens(_, _)
markGivens(cells, c) ==
  IF c >= NN THEN cells
  ELSE IF cells[c].value # NoValue
       THEN markGivens(setGiven(cells, c, cells[c].value), c + 1)
       ELSE markGivens(cells, c + 1)

\* removeCells: maxAttempts
maxAttempts == NN * 2

\* the for loop of removeCells is over, or takes its break
loopOver ==
  \/ gen.idx > Len(gen.allCoords)
  \/ gen.currentClues <= gen.targetClues
  \/ gen.attempts >= maxAttempts

\* generate is called: generateCompleteSolution makes a new Grid and
\* calls fillGrid.  gen.stack is the call stack of fillGrid, one frame
\* [cell, possibleValues, i] per call that is in its for loop.
Generate ==
  /\ gen.pc = "start"
  /\ \E difficulty \in Difficulties, fillSeed \in Seeds :
       gen' = [pc |-> "fillCall",
               difficulty |-> difficulty,
               fillSeed |-> fillSeed,
               stack |-> <<>>,
               ret |-> FALSE,
               targetClues |-> 0,
               allCoords |-> <<>>,
               idx |-> 1,
               currentClues |-> NN,
               attempts |-> 0,
               coord |-> 0,
               savedValue |-> NoValue,
               timeouts |-> 0]
  /\ heap' = [heap EXCEPT !.caller = initializeCells]
  /\ board' = initializeCells
  /\ UNCHANGED <<input, wref, op, opts, stack, solutions, nodesExplored,
                 iterations, pc, ret, aborted, timeUp, result, found,
                 stopped, abortMark, prev>>
  /\ UNCHANGED <<store, prop>>

\* entry of fillGrid up to its for loop: no empty cell is success; else
\* the candidates of the first empty cell are computed and shuffled, with
\* the draws of the call's seed or, when anyDraw, with any draws
fillGridEntry(anyDraw) ==
  /\ gen.pc = "fillCall"
  /\ \E emptyCells \in {getEmptyCells(heap.caller)} :
       IF emptyCells = <<>>
       THEN /\ gen' = [gen EXCEPT !.pc = "fillRet", !.ret = TRUE]
            /\ heap' = heap
       ELSE \E g \in {calculatePossibleValues(heap.caller)} :
              \E possibleValues \in
                   IF anyDraw
                   THEN shuffleOutcomes(
                          SetToSeq(g[emptyCells[1]].possibleValues))
                   ELSE {shuffleArray(
                           SetToSeq(g[emptyCells[1]].possibleValues),
                           gen.fillSeed)} :
                /\ heap' = [heap EXCEPT !.caller = g]
                /\ gen' = [gen EXCEPT
                             !.pc = "fillLoop",
                             !.stack = Append(@,
                                [cell |-> emptyCells[1],
                                 possibleValues |-> possibleValues,
                                 i |-> 1])]
  /\ UNCHANGED <<input, board, wref, op, opts, stack, solutions,
                 nodesExplored, iterations, pc, ret, aborted, timeUp, result,
                 found, stopped, abortMark, prev>>
  /\ UNCHANGED <<store, prop>>

\* fillGrid is entered within a generate call whose shuffles follow its seed
FillCall == fillGridEntry(FALSE)

\* fillGrid is entered and its shuffle takes any draws
FillCallAnyDraw == fillGridEntry(TRUE)

\* one turn of the for loop of fillGrid: the loop is over and the call
\* returns false, or the next value is placed and fillGrid calls itself,
\* or the value is no valid placement
FillLoop ==
  /\ gen.pc = "fillLoop"
  /\ LET d == Len(gen.stack)
         f == gen.stack[d]
     IN IF f.i > Len(f.possibleValues)
        THEN /\ gen' = [gen EXCEPT !.pc = "fillRet", !.ret = FALSE,
                                   !.stack = Pop(@)]
             /\ heap' = heap
        ELSE IF isValidPlacement(heap.caller, f.cell, f.possibleValues[f.i])
        THEN /\ gen' = [gen EXCEPT !.pc = "fillCall"]
             /\ heap' = [heap EXCEPT
                           !.caller = setValue(@, f.cell,
                                               f.possibleValues[f.i])]
        ELSE /\ gen' = [gen EXCEPT !.stack[d].i = @ + 1]
             /\ heap' = heap
  /\ UNCHANGED <<input, board, wref, op, opts, stack, solutions,
                 nodesExplored, iterations, pc, ret, aborted, timeUp, result,
                 found, stopped, abortMark, prev>>
  /\ UNCHANGED <<store, prop>>

\* a call of fillGrid returns into the loop of its caller: true is handed
\* on, false takes the value back and goes on with the loop
FillReturn ==
  /\ gen.pc = "fillRet"
  /\ gen.stack # <<>>
  /\ LET d == Len(gen.stack)
         f == gen.stack[d]
     IN IF gen.ret
        THEN /\ gen' = [gen EXCEPT !.stack = Pop(@)]
             /\ heap' = heap
        ELSE /\ gen' = [gen EXCEPT !.pc = "fillLoop", !.stack[d].i = @ + 1]
             /\ heap' = [heap EXCEPT
                           !.caller = setValue(@, f.cell, NoValue)]
  /\ UNCHANGED <<input, board, wref, op, opts, stack, solutions,
                 nodesExplored, iterations, pc, ret, aborted, timeUp, result,
                 found, stopped, abortMark, prev>>
  /\ UNCHANGED <<store, prop>>

\* the outermost fillGrid has returned; removeCells up to its for loop: the
\* clone puzzle, the target and the shuffled coordinates
StartRemoval ==
  /\ gen.pc = "fillRet"
  /\ gen.stack = <<>>
  /\ \E coordSeed \in Seeds :
       \E r \in 0 .. (DIFFICULTY_CLUES[gen.difficulty].max
                       - DIFFICULTY_CLUES[gen.difficulty].min) :
         gen' = [gen EXCEPT
                   !.pc = "loop",
                   !.targetClues = getTargetClues(gen.difficulty, r),
                   !.allCoords =
                     shuffleArray([i \in 1 .. NN |-> i - 1], coordSeed),
                   !.idx = 1,
                   !.currentClues = NN,
                   !.attempts = 0]
  /\ heap' = [heap EXCEPT !.caller = cloneCellsMap(@)]
  /\ board' = cloneCellsMap(heap.caller)
  /\ UNCHANGED <<input, wref, op, opts, stack, solutions, nodesExplored,
                 iterations, pc, ret, aborted, timeUp, result, found,
                 stopped, abortMark, prev>>
  /\ UNCHANGED <<store, prop>>

\* one turn of the for loop up to the search of hasUniqueSolution: the
\* value of the next coordinate is removed and the puzzle is handed to
\* the solver
RemoveCell ==
  /\ gen.pc = "loop"
  /\ pc = "idle"
  /\ ~loopOver
  /\ LET coord == gen.allCoords[gen.idx]
     IN IF heap.caller[coord].value = NoValue
        THEN /\ gen' = [gen EXCEPT !.idx = @ + 1]
             /\ UNCHANGED <<input, board, heap, wref, op, opts, stack,
                            solutions, nodesExplored, iterations, pc, ret,
                            aborted, timeUp, result, found, stopped,
                            abortMark, prev>>
        ELSE \E h \in {[heap EXCEPT
                          !.caller = setValue(@, coord, NoValue)]} :
               /\ hasUniqueSolution(h)
               /\ board' = h.caller
               /\ gen' = [gen EXCEPT !.pc = "check", !.coord = coord,
                                     !.savedValue = heap.caller[coord].value]
               /\ UNCHANGED <<input, prev>>
  /\ UNCHANGED <<store, prop>>

\* hasUniqueSolution has returned: the removal stays or the value comes back
KeepOrRestore ==
  /\ gen.pc = "check"
  /\ pc = "done"
  /\ IF result.unique
     THEN /\ gen' = [gen EXCEPT !.pc = "loop", !.currentClues = @ - 1,
                                !.attempts = @ + 1, !.idx = @ + 1]
          /\ UNCHANGED <<heap, board>>
     ELSE /\ gen' = [gen EXCEPT !.pc = "loop",
                                !.attempts = @ + 1, !.idx = @ + 1]
          /\ heap' = [heap EXCEPT
                        !.caller = setValue(@, gen.coord, gen.savedValue)]
          /\ board' = setValue(heap.caller, gen.coord, gen.savedValue)
  /\ pc' = "idle"
  /\ UNCHANGED <<input, wref, op, opts, stack, solutions, nodesExplored,
                 iterations, ret, aborted, timeUp, result, found, stopped,
                 abortMark, prev>>
  /\ UNCHANGED <<store, prop>>

\* the loop is left: the remaining values are marked as givens and
\* generate returns the puzzle
ReturnPuzzle ==
  /\ gen.pc = "loop"
  /\ pc = "idle"
  /\ loopOver
  /\ \E puzzle \in {calculatePossibleValues(markGivens(heap.caller, 0))} :
       /\ heap' = [heap EXCEPT !.caller = puzzle]
       /\ board' = puzzle
       /\ result' = [op |-> "generate", puzzle |-> toSolution(puzzle)]
  /\ gen' = [gen EXCEPT !.pc = "returned"]
  /\ UNCHANGED <<input, wref, op, opts, stack, solutions, nodesExplored,
                 iterations, pc, ret, aborted, timeUp, found, stopped,
                 abortMark, prev>>
  /\ UNCHANGED <<store, prop>>

InitGen ==
  /\ input = [keep |-> {}, cell |-> CHOOSE c \in UserCells : TRUE,
              user |-> 0]
  /\ board = initializeCells
  /\ heap = [caller |-> initializeCells, work |-> initializeCells]
  /\ wref = "work"
  /\ op = "none"
  /\ opts = NoOpts
  /\ stack = <<>>
  /\ solutions = <<>>
  /\ nodesExplored = 0
  /\ iterations = 0
  /\ pc = "idle"
  /\ ret = TRUE
  /\ aborted = FALSE
  /\ timeUp = FALSE
  /\ result = NoResult
  /\ found = <<>>
  /\ stopped = "none"
  /\ abortMark = NoMark
  /\ prev = NoResult
  /\ gen = [pc |-> "start"]
  /\ store = NoStore
  /\ prop = NoProp

NextGen ==
  \/ Generate
  \/ FillCall
  \/ FillLoop
  \/ FillReturn
  \/ StartRemoval
  \/ RemoveCell
  \/ KeepOrRestore
  \/ ReturnPuzzle
  \/ DirectCall
  \/ DirectLoop
  \/ DirectReturn
  \/ Tick
  \/ Finish

SpecGen == InitGen /\ [][NextGen]_vars

\* generateCompleteSolution alone, over every outcome of the shuffles:
\* a new Grid is made and fillGrid is called on it; the call runs on until
\* fillGrid has returned
InitFill ==
  /\ input = [keep |-> {}, cell |-> CHOOSE c \in UserCells : TRUE,
              user |-> 0]
  /\ board = initializeCells
  /\ heap = [caller |-> initializeCells, work |-> initializeCells]
  /\ wref = "work"
  /\ op = "none"
  /\ opts = NoOpts
  /\ stack = <<>>
  /\ solutions = <<>>
  /\ nodesExplored = 0
  /\ iterations = 0
  /\ pc = "idle"
  /\ ret = TRUE
  /\ aborted = FALSE
  /\ timeUp = FALSE
  /\ result = NoResult
  /\ found = <<>>
  /\ stopped = "none"
  /\ abortMark = NoMark
  /\ prev = NoResult
  /\ gen = [pc |-> "fillCall",
            difficulty |-> "MEDIUM",
            fillSeed |-> 0,
            stack |-> <<>>,
            ret |-> FALSE,
            targetClues |-> 0,
            allCoords |-> <<>>,
            idx |-> 1,
            currentClues |-> NN,
            attempts |-> 0,
            coord |-> 0,
            savedValue |-> NoValue,
            timeouts |-> 0]
  /\ store = NoStore
  /\ prop = NoProp

NextFill ==
  \/ FillCallAnyDraw
  \/ FillLoop
  \/ FillReturn

\* fillGrid has been called and has not returned to its caller
fillRunning ==
  \/ gen.pc \in {"fillCall", "fillLoop"}
  \/ gen.pc = "fillRet" /\ gen.stack # <<>>

\* fillGrid is synchronous code: the engine runs it on until it returns.
\* This is weak fairness of NextFill, WF_vars(NextFill), with the enabling
\* condition of NextFill written out: a step of NextFill is possible
\* exactly while fillRunning.
SpecFill ==
  /\ InitFill
  /\ [][NextFill]_vars
  /\ ([]<>(~fillRunning) \/ []<><<NextFill>>_vars)

----------------------------------------------------------------------------
(* puzzleStore.  The store record holds cells, history (the cells of each    *)
(* snapshot; the timestamps are left out), historyIndex (0-based, as in the  *)
(* code), solutions, currentSolutionIndex, status and error.  store.solve    *)
(* runs Solver.solve through the search steps above; no other store          *)
(* operation runs before it has returned.  The remaining fields record the   *)
(* operations that led to the state: the last operation and what it kept    *)
(* (lastOp), the last edit that changed the board (edit) and whether an edit *)
(* came after undos (branch).                                                *)

\* MAX_HISTORY of saveToHistory, scaled down from 100
MAX_HISTORY == 3

\* Grid.validateAll
validateAll(cells) ==
  [c \in Cells |->
     [cells[c] EXCEPT !.isValid = \/ cells[c].value = NoValue
                                  \/ getConflicts(cells, c) = {}]]

\* Grid.hasConflicts
hasConflicts(cells) ==
  \E c \in Cells : cells[c].value # NoValue /\ getConflicts(cells, c) # {}

\* Grid.clearCell
clearCell(cells, c) ==
  IF cells[c].isGiven THEN cells ELSE [cells EXCEPT ![c].value = NoValue]

\* Grid.applySolution
applySolution(cells, solution) ==
  calculatePossibleValues(validateAll(
    [c \in Cells |->
       IF solution[c] # NoValue /\ ~cells[c].isGiven
       THEN [cells[c] EXCEPT !.value = solution[c]]
       ELSE cells[c]]))

\* puzzleStore.getGrid: a new Grid with the values, given flags and pencil
\* marks of the store's cells
getGrid(cells) ==
  validateAll(calculatePossibleValues(
    [c \in Cells |->
       [createEmptyCell EXCEPT !.value = cells[c].value,
                               !.isGiven = cells[c].isGiven,
                               !.pencilMarks = cells[c].pencilMarks]]))

\* InputValidator.validateCellValue: null and 1 .. gridSize pass
validateCellValue(value) == value = NoValue \/ value \in Vals

\* a saveToHistory that keeps the snapshots after historyIndex
saveToHistoryKeepsFuture(st) ==
  With(st.history \o <<cloneCellsMap(st.cells)>>, LAMBDA pushed :
  With(IF Len(pushed) > MAX_HISTORY
       THEN SubSeq(pushed, Len(pushed) - MAX_HISTORY + 1, Len(pushed))
       ELSE pushed, LAMBDA kept :
    [st EXCEPT !.history = kept,
               !.historyIndex = IF st.historyIndex + 1 < Len(kept)
                                THEN st.historyIndex + 1
                                ELSE Len(kept) - 1]))

\* puzzleStore.saveToHistory
saveToHistory(st) ==
  With(SubSeq(st.history, 1, st.historyIndex + 1)
         \o <<cloneCellsMap(st.cells)>>, LAMBDA pushed :
  With(IF Len(pushed) > MAX_HISTORY
       THEN SubSeq(pushed, Len(pushed) - MAX_HISTORY + 1, Len(pushed))
       ELSE pushed, LAMBDA kept :
    [st EXCEPT !.history = kept, !.historyIndex = Len(kept) - 1]))

\* puzzleStore.loadFromString
loadFromString(keep) ==
  With(validateAll(calculatePossibleValues(
         loadGivens(initializeCells, keep, 0))), LAMBDA cellsMap :
    [cells |-> cellsMap, status |-> "solving",
     history |-> <<cloneCellsMap(cellsMap)>>, historyIndex |-> 0,
     solutions |-> <<>>, currentSolutionIndex |-> 0, error |-> FALSE])

\* puzzleStore.reset
storeReset(st) ==
  With(calculatePossibleValues(
         [c \in Cells |->
            IF st.cells[c].isGiven /\ st.cells[c].value # NoValue
            THEN [createEmptyCell EXCEPT !.value = st.cells[c].value,
                                         !.isGiven = TRUE]
            ELSE createEmptyCell]), LAMBDA cellsMap :
    [st EXCEPT !.cells = cellsMap, !.status = "solving",
               !.history = <<cloneCellsMap(cellsMap)>>, !.historyIndex = 0,
               !.solutions = <<>>, !.currentSolutionIndex = 0])

\* puzzleStore.setCell
setCell(st, coord, value) ==
  IF ~validateCellValue(value) THEN [st EXCEPT !.error = TRUE]
  ELSE IF st.cells[coord].isGiven THEN st
  ELSE With(validateAll(calculatePossibleValues(
              setValue(getGrid(st.cells), coord, value))), LAMBDA grid :
         saveToHistory(
           [st EXCEPT !.cells = grid,
                      !.status = IF isSolved(grid) THEN "solved"
                                 ELSE IF hasConflicts(grid) THEN "invalid"
                                 ELSE "solving"]))

\* puzzleStore.setCellById
setCellById(st, id, value) == setCell(st, id, value)

\* puzzleStore.toggleGiven
toggleGiven(st, coord) ==
  IF st.cells[coord].value # NoValue
  THEN [st EXCEPT !.cells[coord].isGiven = ~@]
  ELSE st

\* puzzleStore.togglePencilMark
storeTogglePencilMark(st, coord, value) ==
  IF st.cells[coord].value # NoValue THEN st
  ELSE saveToHistory([st EXCEPT !.cells = togglePencilMark(@, coord, value)])

\* puzzleStore.clearCell
storeClearCell(st, coord) ==
  IF st.cells[coord].isGiven THEN st
  ELSE With(validateAll(calculatePossibleValues(
              clearCell(getGrid(st.cells), coord))), LAMBDA grid :
         saveToHistory([st EXCEPT !.cells = grid, !.status = "solving"]))

\* puzzleStore.undo
undo(st) ==
  IF st.historyIndex > 0
  THEN [st EXCEPT !.historyIndex = @ - 1,
                  !.cells = cloneCellsMap(st.history[st.historyIndex])]
  ELSE st

\* puzzleStore.redo
redo(st) ==
  IF st.historyIndex < Len(st.history) - 1
  THEN [st EXCEPT !.historyIndex = @ + 1,
                  !.cells = cloneCellsMap(st.history[st.historyIndex + 2])]
  ELSE st

\* a showSolution that writes into the given cells as well
showSolutionOverGivens(st, index) ==
  IF index < 0 \/ index >= Len(st.solutions) THEN st
  ELSE [st EXCEPT
          !.cells =
            [c \in Cells |->
               IF st.solutions[index + 1][c] # NoValue
               THEN [st.cells[c] EXCEPT
                       !.value = st.solutions[index + 1][c],
                       !.pencilMarks = {}]
               ELSE st.cells[c]],
          !.currentSolutionIndex = index,
          !.status = "solved"]

\* puzzleStore.showSolution
showSolution(st, index) ==
  IF index < 0 \/ index >= Len(st.solutions) THEN st
  ELSE [st EXCEPT
          !.cells =
            [c \in Cells |->
               IF st.solutions[index + 1][c] # NoValue /\ ~st.cells[c].isGiven
               THEN [st.cells[c] EXCEPT
                       !.value = st.solutions[index + 1][c],
                       !.pencilMarks = {}]
               ELSE st.cells[c]],
          !.currentSolutionIndex = index,
          !.status = "solved"]

\* puzzleStore.solve, after solver.solve has returned solution (<<>> is null)
solveReturned(st, solution) ==
  IF solution # <<>>
  THEN showSolution([st EXCEPT !.solutions = solution,
                               !.currentSolutionIndex = 0], 0)
  ELSE [st EXCEPT !.status = "no_solution", !.error = TRUE]

\* puzzleStore.autoFillConfident.  The updater writes the moves into the
\* draft and then replaces the draft's cells by those of get().getGrid(),
\* which is built from the state the store held before the updater ran.
autoFillConfident(st) ==
  With(collectMoves(propagate(calculatePossibleValues(
         cloneCellsMap(getGrid(st.cells)))).cells), LAMBDA confidentMoves :
    IF DOMAIN confidentMoves = {} THEN st
    ELSE With(saveToHistory(st), LAMBDA saved :
         With(validateAll(calculatePossibleValues(getGrid(saved.cells))),
              LAMBDA grid :
           [saved EXCEPT !.cells = grid,
                         !.status = IF isSolved(grid) THEN "solved" ELSE @])))

\* the boards the store loads, the cells the user acts on (cell 4 is a
\* given) and the values the user enters (N + 1 is not a cell value)
StoreKeeps == {ClueCells \ {14}}
StoreCoords == {4, 11}
StoreValues == {NoValue, 1, N + 1}
StoreMarks == {1}

Edits == {"setCell", "clearCell", "togglePencilMark"}
NoEdit == [phase |-> "none"]

\* the store n that operation name, applied on coord to the store st, left;
\* acted says whether the operation got past its guards
Track(st, name, coord, acted, n) ==
  [n EXCEPT
     !.ops = @ + 1,
     !.lastOp =
       [name |-> name, coord |-> coord, acted |-> acted,
        onGiven |-> coord # NoCell /\ st.cells[coord].isGiven,
        same |-> /\ n.cells = st.cells
                 /\ n.history = st.history
                 /\ n.historyIndex = st.historyIndex,
        givensKept |-> \A c \in Cells :
                         st.cells[c].isGiven =>
                           /\ n.cells[c].isGiven
                           /\ n.cells[c].value = st.cells[c].value],
     !.edit = IF name \in Edits /\ acted /\ n.cells # st.cells
              THEN [phase |-> "edited", before |-> st.cells,
                    after |-> n.cells]
              ELSE IF name = "undo" /\ st.edit.phase = "edited"
              THEN [st.edit EXCEPT !.phase = "undone"]
              ELSE IF name = "redo" /\ st.edit.phase = "undone"
              THEN [st.edit EXCEPT !.phase = "redone"]
              ELSE NoEdit,
     !.branch = IF name = "undo" /\ (acted \/ st.branch = "undone")
                THEN "undone"
                ELSE IF name \in Edits /\ acted /\ st.branch = "undone"
                THEN "branched"
                ELSE IF name = "redo" /\ st.branch = "branched"
                THEN "redone"
                ELSE "none"]

\* the variables of the solver and the generator
others == <<input, board, heap, wref, op, opts, stack, solutions,
            nodesExplored, iterations, pc, ret, aborted, timeUp, result,
            found, stopped, abortMark, prev, gen, prop>>

\* a session is at most MaxOps store operations
MaxOps == 5

StoreReady == store.pc = "ready" /\ pc = "idle" /\ store.ops < MaxOps

SetCell ==
  /\ StoreReady
  /\ \E coord \in StoreCoords, value \in StoreValues :
       store' = Track(store, "setCell", coord,
                      validateCellValue(value) /\ ~store.cells[coord].isGiven,
                      setCell(store, coord, value))
  /\ UNCHANGED others

SetCellById ==
  /\ StoreReady
  /\ \E id \in StoreCoords, value \in StoreValues :
       store' = Track(store, "setCell", id,
                      validateCellValue(value) /\ ~store.cells[id].isGiven,
                      setCellById(store, id, value))
  /\ UNCHANGED others

ToggleGiven ==
  /\ StoreReady
  /\ \E coord \in UserCells :
       store' = Track(store, "toggleGiven", coord,
                      store.cells[coord].value # NoValue,
                      toggleGiven(store, coord))
  /\ UNCHANGED others

TogglePencilMark ==
  /\ StoreReady
  /\ \E coord \in StoreCoords, value \in StoreMarks :
       store' = Track(store, "togglePencilMark", coord,
                      store.cells[coord].value = NoValue,
                      storeTogglePencilMark(store, coord, value))
  /\ UNCHANGED others

ClearCell ==
  /\ StoreReady
  /\ \E coord \in StoreCoords :
       store' = Track(store, "clearCell", coord, ~store.cells[coord].isGiven,
                      storeClearCell(store, coord))
  /\ UNCHANGED others

Undo ==
  /\ StoreReady
  /\ store' = Track(store, "undo", NoCell, store.historyIndex > 0, undo(store))
  /\ UNCHANGED others

Redo ==
  /\ StoreReady
  /\ store' = Track(store, "redo", NoCell,
                    store.historyIndex < Len(store.history) - 1, redo(store))
  /\ UNCHANGED others

ShowSolution ==
  /\ StoreReady
  /\ \E index \in {0} :
       store' = Track(store, "showSolution", NoCell,
                      index < Len(store.solutions),
                      showSolution(store, index))
  /\ UNCHANGED others

AutoFillConfident ==
  /\ StoreReady
  /\ \E n \in {autoFillConfident(store)} :
       store' = Track(store, "autoFillConfident", NoCell,
                      n.history # store.history, n)
  /\ UNCHANGED others

Reset ==
  /\ StoreReady
  /\ store' = Track(store, "reset", NoCell, TRUE, storeReset(store))
  /\ UNCHANGED others

\* puzzleStore.solve up to the search of solver.solve(get().getGrid())
StoreSolve ==
  /\ StoreReady
  /\ \E grid \in {getGrid(store.cells)} :
       /\ StartSolveOn("solve", [heap EXCEPT !.caller = grid])
       /\ board' = grid
  /\ store' = [store EXCEPT !.pc = "solving"]

\* puzzleStore.solve from the return of solver.solve; the Solver and its
\* grids were local to the call
StoreSolveReturn ==
  /\ store.pc = "solving"
  /\ pc = "done"
  /\ store' = Track(store, "solve", NoCell, TRUE,
                    [solveReturned(store, result.solution)
                       EXCEPT !.pc = "ready"])
  /\ heap' = [caller |-> initializeCells, work |-> initializeCells]
  /\ board' = initializeCells
  /\ wref' = "work"
  /\ op' = "none"
  /\ opts' = NoOpts
  /\ stack' = <<>>
  /\ solutions' = <<>>
  /\ nodesExplored' = 0
  /\ iterations' = 0
  /\ pc' = "idle"
  /\ ret' = TRUE
  /\ result' = NoResult
  /\ found' = <<>>
  /\ stopped' = "none"
  /\ UNCHANGED <<input, aborted, timeUp, abortMark, prev, gen, prop>>

InitStore ==
  /\ input \in [keep : StoreKeeps, cell : UserCells, user : {0}]
  /\ store = loadFromString(input.keep)
               @@ [pc |-> "ready",
                   lastOp |-> [name |-> "loadFromString", coord |-> NoCell,
                               acted |-> TRUE, onGiven |-> FALSE,
                               same |-> FALSE,
                               givensKept |-> TRUE],
                   edit |-> NoEdit, branch |-> "none", ops |-> 0]
  /\ heap = [caller |-> initializeCells, work |-> initializeCells]
  /\ board = initializeCells
  /\ wref = "work"
  /\ op = "none"
  /\ opts = NoOpts
  /\ stack = <<>>
  /\ solutions = <<>>
  /\ nodesExplored = 0
  /\ iterations = 0
  /\ pc = "idle"
  /\ ret = TRUE
  /\ aborted = FALSE
  /\ timeUp = FALSE
  /\ result = NoResult
  /\ found = <<>>
  /\ stopped = "none"
  /\ abortMark = NoMark
  /\ prev = NoResult
  /\ gen = NoGen
  /\ prop = NoProp

NextStore ==
  \/ SetCell
  \/ SetCellById
  \/ ToggleGiven
  \/ TogglePencilMark
  \/ ClearCell
  \/ Undo
  \/ Redo
  \/ ShowSolution
  \/ AutoFillConfident
  \/ Reset
  \/ StoreSolve
  \/ DirectCall
  \/ DirectLoop
  \/ DirectReturn
  \/ Finish
  \/ StoreSolveReturn

SpecStore == InitStore /\ [][NextStore]_vars

----------------------------------------------------------------------------
(* ConstraintPropagation.propagate, step by step.  prop holds the grid a     *)
(* call works on (cells), the loop it is in (pc), the list and index of the  *)
(* naked-singles loop (list, i), the index of the hidden-singles loop (k)    *)
(* and the flag changed.  A step is one iteration of a loop, or the          *)
(* recalculation that ends a pass.  start is the grid the call received,     *)
(* before the grid before the last step, removed the candidates taken away   *)
(* since the call began, passes the number of recalculations.                *)

\* the loop a pass enters with the list of empty cells it has read
enterPass(p, cells) ==
  With(getEmptyCells(cells), LAMBDA list :
    [p EXCEPT !.cells = cells, !.changed = FALSE, !.list = list, !.i = 1,
              !.k = 0, !.pc = IF list = <<>> THEN "hidden" ELSE "naked"])

\* the candidates that step from grid a to grid b took away
taken(a, b) ==
  {<<c, v>> \in Cells \X Vals :
     v \in a[c].possibleValues /\ v \notin b[c].possibleValues}

\* the call record after a step that left the record n
stepped(p, n) ==
  [n EXCEPT !.before = p.cells,
            !.removed = p.removed \cup taken(p.cells, n.cells)]

\* propagate(grid), called on cells
propagateCall(cells) ==
  enterPass([pc |-> "naked", cells |-> cells, changed |-> FALSE,
             list |-> <<>>, i |-> 1, k |-> 0, ok |-> TRUE, start |-> cells,
             before |-> cells, removed |-> {}, passes |-> 0],
            cells)

\* a propagate that returns true on reaching its first loop
PropNakedStepReturnsAtOnce ==
  /\ prop.pc = "naked"
  /\ prop' = stepped(prop, [prop EXCEPT !.pc = "returned"])
  /\ UNCHANGED <<input, board, heap, wref, op, opts, stack, solutions,
                 nodesExplored, iterations, pc, ret, aborted, timeUp, result,
                 found, stopped, abortMark, prev, gen, store>>

\* one iteration of the loop of strategy 1
PropNakedStep ==
  /\ prop.pc = "naked"
  /\ \E r \in {propNaked(prop.cells, <<prop.list[prop.i]>>, 1, prop.changed)} :
       prop' = stepped(prop,
                 IF ~r.ok
                 THEN [prop EXCEPT !.cells = r.cells, !.ok = FALSE,
                                   !.pc = "returned"]
                 ELSE [prop EXCEPT !.cells = r.cells, !.changed = r.changed,
                                   !.i = @ + 1,
                                   !.pc = IF prop.i = Len(prop.list)
                                          THEN "hidden" ELSE "naked"])
  /\ UNCHANGED <<input, board, heap, wref, op, opts, stack, solutions,
                 nodesExplored, iterations, pc, ret, aborted, timeUp, result,
                 found, stopped, abortMark, prev, gen, store>>

\* one iteration of the loops of strategy 2; after the last one the pass
\* ends and propagate returns true if nothing changed
PropHiddenStep ==
  /\ prop.pc = "hidden"
  /\ \E r \in {propHiddenTo(prop.cells, prop.k, prop.k + 1, prop.changed)} :
       prop' = stepped(prop,
                 IF ~r.ok
                 THEN [prop EXCEPT !.cells = r.cells, !.ok = FALSE,
                                   !.pc = "returned"]
                 ELSE [prop EXCEPT !.cells = r.cells, !.changed = r.changed,
                                   !.k = @ + 1,
                                   !.pc = IF prop.k + 1 < NumUnits * N
                                          THEN "hidden"
                                          ELSE IF r.changed THEN "recalc"
                                          ELSE "returned"])
  /\ UNCHANGED <<input, board, heap, wref, op, opts, stack, solutions,
                 nodesExplored, iterations, pc, ret, aborted, timeUp, result,
                 found, stopped, abortMark, prev, gen, store>>

\* if (changed) grid.calculatePossibleValues(), and the next pass begins
PropRecalc ==
  /\ prop.pc = "recalc"
  /\ \E grid \in {calculatePossibleValues(prop.cells)} :
       prop' = stepped(prop, enterPass([prop EXCEPT !.passes = @ + 1], grid))
  /\ UNCHANGED <<input, board, heap, wref, op, opts, stack, solutions,
                 nodesExplored, iterations, pc, ret, aborted, timeUp, result,
                 found, stopped, abortMark, prev, gen, store>>

\* the search guesses a value for the cell it selected and calls propagate
\* again (Backtracker.backtrack)
PropGuess ==
  /\ prop.pc = "returned"
  /\ prop.ok
  /\ selectNextCell(prop.cells) # NoCell
  /\ \E cell \in {selectNextCell(prop.cells)} :
       \E value \in prop.cells[cell].possibleValues :
         \E grid \in {calculatePossibleValues(
                        setValue(prop.cells, cell, value))} :
           prop' = propagateCall(grid)
  /\ UNCHANGED <<input, board, heap, wref, op, opts, stack, solutions,
                 nodesExplored, iterations, pc, ret, aborted, timeUp, result,
                 found, stopped, abortMark, prev, gen, store>>

\* Solver.solve: propagate on the calculated copy of the caller's grid
InitProp ==
  /\ input \in Inputs \cup {EmptyBoard, SparseBoard}
  /\ \E caller \in {LoadBoard(input)} :
       \E workingGrid \in {cloneCellsMap(caller)} :
         \E grid \in {calculatePossibleValues(workingGrid)} :
           /\ prop = propagateCall(grid)
           /\ heap = [caller |-> caller, work |-> initializeCells]
           /\ board = caller
  /\ wref = "work"
  /\ op = "none"
  /\ opts = NoOpts
  /\ stack = <<>>
  /\ solutions = <<>>
  /\ nodesExplored = 0
  /\ iterations = 0
  /\ pc = "idle"
  /\ ret = TRUE
  /\ aborted = FALSE
  /\ timeUp = FALSE
  /\ result = NoResult
  /\ found = <<>>
  /\ stopped = "none"
  /\ abortMark = NoMark
  /\ prev = NoResult
  /\ gen = NoGen
  /\ store = NoStore

NextProp ==
  \/ PropNakedStep
  \/ PropHiddenStep
  \/ PropRecalc
  \/ PropGuess

SpecProp == InitProp /\ [][NextProp]_vars

----------------------------------------------------------------------------
(* puzzleStore.findAllSolutions and cancelSearch.  Every call makes its own  *)
(* Solver, so every call has its own search record; calls holds them in the  *)
(* order of the calls, with the options of the call, and the abort signal of *)
(* call i is calls[i].s.aborted.  controller is the module-level             *)
(* searchAbortController: 0 for null, else the call whose controller it is.  *)
(* timers is the queue of the setTimeout(0) callbacks of the suspended       *)
(* searches.  What runs between two awaits runs as one step: the call up to  *)
(* the first setTimeout of its search, a resumption up to the next one, and, *)
(* when the search returns, the rest of findAllSolutions with it.            *)

\* the searches a session starts, the edits made while they run and the
\* times Cancel is pressed
MaxCalls == 2
MaxEdits == 1
MaxCancels == 1

\* the fields of a new AllSolutionsFinder
NewSearch ==
  [work |-> initializeCells, stack |-> <<>>, solutions |-> <<>>,
   found |-> <<>>, nodesExplored |-> 0, iterations |-> 0, pc |-> "idle",
   ret |-> TRUE, aborted |-> FALSE, stopped |-> "none"]

\* the options findAllSolutions passes on: maxSolutions of the caller or the
\* default, the default node budget
SearchOptions ==
  {[maxSolutions |-> m, maxNodes |-> DefaultMaxNodes, finder |-> TRUE] :
     m \in {1, DefaultMaxSolutions}}

\* searchAsync from the head of its loop to the next setTimeout, or to its
\* return
RECURSIVE runToYield(_, _)
runToYield(s, o) ==
  IF s.pc # "ahead" THEN s
  ELSE runToYield(searchAsyncHead(s, o, FALSE, FALSE), o)

\* the search of a call has returned
searchOver(s) == s.pc \in {"done", "return"}

\* findAllSolutions after the await: the result goes into the store, the
\* first solution is shown, searchAbortController = null
findAllSolutionsEnd(st, id) ==
  With(st.calls[id].result, LAMBDA r :
    With([st EXCEPT !.solutions = r.solutions,
                    !.currentSolutionIndex = 0,
                    !.searchResult = r,
                    !.isSearching = FALSE,
                    !.status = IF r.solutions = <<>>
                               THEN "no_solution" ELSE @,
                    !.calls[id].done = TRUE], LAMBDA st1 :
      [(IF r.solutions # <<>> THEN showSolution(st1, 0) ELSE st1)
         EXCEPT !.controller = 0]))

\* the search of call id has run up to s: it is suspended on a timer, or it
\* is over, findAsync hands back its result and findAllSolutions goes on
searchRan(st, id, s) ==
  IF searchOver(s)
  THEN findAllSolutionsEnd(
         [st EXCEPT !.calls[id].s = s,
                    !.calls[id].result =
                      buildResult(s, IF s.pc = "done" THEN FALSE
                                     ELSE checkLimitsReached(
                                            s, st.calls[id].o, FALSE))],
         id)
  ELSE [st EXCEPT !.calls[id].s = s, !.timers = Append(@, id)]

\* findAllSolutions up to the await
findAllSolutions(st, o) ==
  With(Len(st.calls) + 1, LAMBDA id :
  With(getGrid(st.cells), LAMBDA grid :
  With(runToYield(findStart(NewSearch, [caller |-> grid,
                                        work |-> initializeCells], TRUE).s,
                  o), LAMBDA s :
    searchRan(
      [st EXCEPT
         !.calls = Append(IF st.controller # 0
                          THEN [@ EXCEPT ![st.controller].s.aborted = TRUE]
                          ELSE @,
                          [s |-> NewSearch, o |-> o, done |-> FALSE,
                           result |-> NoResult,
                           overlaps |-> \E i \in 1 .. Len(st.calls) :
                                          ~st.calls[i].done]),
         !.controller = id,
         !.isSearching = TRUE,
         !.error = FALSE],
      id, s))))

\* puzzleStore.cancelSearch
cancelSearch(st) ==
  [st EXCEPT !.calls = IF st.controller # 0
                       THEN [@ EXCEPT ![st.controller].s.aborted = TRUE]
                       ELSE @,
             !.controller = 0,
             !.isSearching = FALSE]

\* the user presses Find All
StoreFindAll ==
  /\ store.pc = "ready"
  /\ Len(store.calls) < MaxCalls
  /\ \E o \in SearchOptions : store' = findAllSolutions(store, o)
  /\ UNCHANGED others

\* the timer of a suspended search fires: the search goes on from its await
StoreSearchResume ==
  /\ store.pc = "ready"
  /\ store.timers # <<>>
  /\ \E id \in {Head(store.timers)} :
       \E s \in {runToYield(searchAsyncBody(store.calls[id].s,
                                            store.calls[id].o, FALSE),
                            store.calls[id].o)} :
         store' = searchRan([store EXCEPT !.timers = Tail(@)], id, s)
  /\ UNCHANGED others

\* the user presses Cancel
CancelSearch ==
  /\ store.pc = "ready"
  /\ store.calls # <<>>
  /\ store.cancels < MaxCancels
  /\ store' = [cancelSearch(store) EXCEPT !.cancels = @ + 1]
  /\ UNCHANGED others

\* the user enters a value before the last search of the session starts
SearchSetCell ==
  /\ store.pc = "ready"
  /\ Len(store.calls) < MaxCalls
  /\ store.edits < MaxEdits
  /\ \E coord \in StoreCoords, value \in StoreValues :
       store' = [setCell(store, coord, value) EXCEPT !.edits = @ + 1]
  /\ UNCHANGED others

InitSearch ==
  /\ input \in [keep : StoreKeeps, cell : UserCells, user : {0}]
  /\ store = loadFromString(input.keep)
               @@ [pc |-> "ready", isSearching |-> FALSE,
                   searchResult |-> NoResult, controller |-> 0,
                   calls |-> <<>>, timers |-> <<>>, cancels |-> 0,
                   edits |-> 0]
  /\ heap = [caller |-> initializeCells, work |-> initializeCells]
  /\ board = initializeCells
  /\ wref = "work"
  /\ op = "none"
  /\ opts = NoOpts
  /\ stack = <<>>
  /\ solutions = <<>>
  /\ nodesExplored = 0
  /\ iterations = 0
  /\ pc = "idle"
  /\ ret = TRUE
  /\ aborted = FALSE
  /\ timeUp = FALSE
  /\ result = NoResult
  /\ found = <<>>
  /\ stopped = "none"
  /\ abortMark = NoMark
  /\ prev = NoResult
  /\ gen = NoGen
  /\ prop = NoProp

NextSearch ==
  \/ StoreFindAll
  \/ StoreSearchResume
  \/ CancelSearch
  \/ SearchSetCell

SpecSearch == InitSearch /\ [][NextSearch]_vars

----------------------------------------------------------------------------
(* Reference definitions, from the rules of Sudoku alone *)

\* the rows, columns and boxes as sets of cells
UnitSets ==
  {{c \in Cells : RowOf(c) = r} : r \in 0 .. (N - 1)}
  \cup {{c \in Cells : ColOf(c) = k} : k \in 0 .. (N - 1)}
  \cup {{c \in Cells : /\ RowOf(c) \div BoxSize = br
                       /\ ColOf(c) \div BoxSize = bc} :
          br \in 0 .. (BoxSize - 1), bc \in 0 .. (BoxSize - 1)}

\* v assigns every cell a value, has every value exactly once in every row,
\* column and box, and keeps every value the cells b already hold
IsCompletion(v, b) ==
  /\ DOMAIN v = Cells
  /\ \A c \in Cells : v[c] \in Vals
  /\ \A u \in UnitSets : \A x \in Vals :
       Cardinality({c \in u : v[c] = x}) = 1
  /\ \A c \in Cells : b[c].value # NoValue => v[c] = b[c].value

\* every way to fill the empty cells from cell c on without repeating a
\* value in a unit
RECURSIVE Extend(_, _)
Extend(v, k) ==
  IF k = NN THEN {v}
  ELSE IF v[k] # NoValue THEN Extend(v, k + 1)
  ELSE LET free == {y \in Vals :
                      \A u \in UnitSets : k \in u => \A d \in u : v[d] # y}
       IN UNION {Extend(Eager([v EXCEPT ![k] = x]), k + 1) : x \in free}

\* all completions of the cells b
Completions(b) ==
  {w \in Extend([c \in Cells |-> b[c].value], 0) : IsCompletion(w, b)}

\* two filled cells of one unit hold the same value
HasDuplicate(b) ==
  \E u \in UnitSets : \E c, d \in u :
    c # d /\ b[c].value # NoValue /\ b[c].value = b[d].value

FinderOps == {"find", "findAsync"}

----------------------------------------------------------------------------
(* Claims *)

\* C1: every solution returned by solve, findAllSolutions and
\* findAllSolutionsAsync assigns each cell a value of 1..N, has each value
\* exactly once in every row, column and box, and keeps every value the
\* input board already held.
C1_SolutionsAreCompletions ==
  (pc = "done" /\ op \in {"solve", "find", "findAsync"}) =>
    LET returned == IF op = "solve" THEN result.solution
                    ELSE result.solutions
    IN \A i \in 1 .. Len(returned) : IsCompletion(returned[i], board)

\* a search of several nodes has returned more than one solution
C1_Witness ==
  /\ pc = "done"
  /\ op = "findAsync"
  /\ nodesExplored >= 2
  /\ Len(result.solutions) >= 2

\* C2: when the node and time budgets are not exhausted, solve returns null
\* exactly when the input board has no completion; a board with duplicate
\* values in a unit gets null.
C2_SolveNullIffNoCompletion ==
  (pc = "done" /\ op = "solve" /\ stopped \notin {"nodes", "time"}) =>
    /\ (result.solution = <<>>) <=> (Completions(board) = {})
    /\ HasDuplicate(board) => result.solution = <<>>

\* solve has searched a board without completion to the end
C2_Witness ==
  /\ pc = "done"
  /\ op = "solve"
  /\ stopped = "exhausted"
  /\ nodesExplored >= 1
  /\ result.solution = <<>>

\* C3: findAllSolutions on a board with fewer completions than
\* max_solutions, not stopped by abort, node budget or time budget, returns
\* every completion exactly once, and totalFound is their number.
C3_FindReturnsAllCompletions ==
  (/\ pc = "done"
   /\ op = "find"
   /\ stopped \notin {"abort", "nodes", "time"}
   /\ Cardinality(Completions(board)) < opts.maxSolutions) =>
    /\ Range(result.solutions) = Completions(board)
    /\ Len(result.solutions) = Cardinality(Completions(board))
    /\ result.totalFound = Cardinality(Completions(board))

\* a search has returned the two completions of a board under a larger
\* solution budget
C3_Witness ==
  /\ pc = "done"
  /\ op = "find"
  /\ stopped = "exhausted"
  /\ nodesExplored >= 2
  /\ Len(result.solutions) >= 2
  /\ Len(result.solutions) < opts.maxSolutions

\* C4: searchLimitReached is true whenever the search stopped on the node,
\* time or solution budget; when it is false the solutions are all the
\* completions of the board.
C4_LimitFlagTellsBudgetStop ==
  (pc = "done" /\ op \in FinderOps /\ stopped # "abort") =>
    /\ stopped \in {"nodes", "time", "solutions"} =>
         result.searchLimitReached
    /\ ~result.searchLimitReached =>
         Range(result.solutions) = Completions(board)

\* C5: a search ended by the abort signal is marked as stopped early.
C5_AbortIsMarked ==
  (pc = "done" /\ op \in FinderOps /\ stopped = "abort") =>
    result.searchLimitReached

\* C6: once the abort signal is set the search explores at most one further
\* node and records at most one further solution, and the result it returns
\* holds the solutions recorded so far.
C6_AbortStopsSearch ==
  abortMark.set =>
    /\ nodesExplored <= abortMark.nodes + 1
    /\ Len(solutions) <= abortMark.sols + 1
    /\ (pc = "done" /\ op \in FinderOps) => result.solutions = found

\* the signal was set while the search was suspended; the search explored
\* one more node and returned
C6_Witness ==
  /\ pc = "done"
  /\ op = "findAsync"
  /\ stopped = "abort"
  /\ abortMark.set
  /\ nodesExplored = abortMark.nodes + 1

\* C7: when the search stops on the node or time budget every solution
\* recorded until then is in the result, and totalFound is their number.
C7_BudgetStopKeepsSolutions ==
  (pc = "done" /\ op \in FinderOps /\ stopped \in {"nodes", "time"}) =>
    /\ result.solutions = found
    /\ result.totalFound = Len(found)

\* the node budget stopped a search that had recorded a solution
C7_Witness ==
  /\ pc = "done"
  /\ op \in FinderOps
  /\ stopped = "nodes"
  /\ Len(found) >= 1
  /\ result.searchLimitReached

\* C8: no Solver operation changes the caller's Grid: value, given flag,
\* candidate set and pencil marks of every cell stay as they were.
C8_CallerGridUnchanged == heap.caller = board

\* an operation has finished after changing its working copy of a board
\* that carries a pencil mark
C8_Witness ==
  /\ pc = "done"
  /\ op = "getConfidentMoves"
  /\ heap.work # board
  /\ \E c \in Cells : board[c].pencilMarks # {}

\* C9: with no budget reached and no abort, findAllSolutionsAsync returns
\* the solutions findAllSolutions returned for the same board and options,
\* in the same order.
C9_AsyncEqualsDirect ==
  (/\ pc = "done"
   /\ op = "findAsync"
   /\ prev.op = "find"
   /\ stopped \in {"exhausted", "solutions"}) =>
    result.solutions = prev.solutions

\* both modes have returned several solutions, the cooperative one after
\* at least one suspension
C9_Witness ==
  /\ pc = "done"
  /\ op = "findAsync"
  /\ prev.op = "find"
  /\ stopped \in {"exhausted", "solutions"}
  /\ iterations >= YIELD_INTERVAL
  /\ Len(result.solutions) >= 2

\* C10: the puzzle under construction has exactly one completion after
\* every turn of the removal loop of generate, and so has the board that
\* generate returns.
C10_PuzzleStaysUnique ==
  (gen.pc \in {"loop", "returned"} /\ pc = "idle") =>
    Cardinality(Completions(heap.caller)) = 1

\* the number of non-empty characters of a puzzle string
Clues(puzzle) == Cardinality({c \in Cells : puzzle[c] # NoValue})

\* C11: the removal loop of removeCells is left only when the running clue
\* count has reached the target or maxAttempts removal attempts are made.
C11_LoopEndsOnTargetOrBudget ==
  gen.pc = "returned" =>
    \/ gen.currentClues <= gen.targetClues
    \/ gen.attempts >= maxAttempts

C13_FillGridTerminatesSolved ==
  /\ <>(gen.pc = "fillRet" /\ gen.stack = <<>>)
  /\ []((gen.pc = "fillRet" /\ gen.stack = <<>>) =>
          /\ gen.ret
          /\ isSolved(heap.caller)
          /\ IsCompletion([c \in Cells |-> heap.caller[c].value],
                          initializeCells))

\* the outermost fillGrid has returned true on a grid other than the one
\* the unshuffled candidate order gives
C13_Witness ==
  /\ gen.pc = "fillRet"
  /\ gen.stack = <<>>
  /\ gen.ret
  /\ getEmptyCells(heap.caller) = <<>>
  /\ heap.caller[0].value = N

C15_ConfidentMovesComplete ==
  (pc = "done" /\ op = "getConfidentMoves") =>
    \A c \in Cells :
      LET cell == calculatePossibleValues(board)[c]
      IN (cell.value = NoValue /\ Cardinality(cell.possibleValues) = 1) =>
           /\ c \in DOMAIN result.moves
           /\ result.moves[c] \in cell.possibleValues

\* C16: in every board state a store operation leaves, a cell that holds a
\* value has an empty candidate set (possibleValues).
C16_ValuedCellsHaveNoCandidates ==
  store.pc = "ready" =>
    \A c \in Cells :
      store.cells[c].value # NoValue => store.cells[c].possibleValues = {}

\* C17: within one propagate call no step enlarges a cell's candidate set,
\* no candidate taken away since the call began is back in its cell
\* (the recalculation that ends a pass included), and a cell that holds a
\* value keeps it.
C17_PropagateOnlyShrinks ==
  prop.pc # "none" =>
    /\ \A c \in Cells :
         /\ prop.cells[c].possibleValues \subseteq
              prop.before[c].possibleValues
         /\ prop.before[c].value # NoValue =>
              prop.cells[c].value = prop.before[c].value
         /\ prop.start[c].value # NoValue =>
              prop.cells[c].value = prop.start[c].value
    /\ \A rc \in prop.removed :
         rc[2] \notin prop.cells[rc[1]].possibleValues

\* a call that placed a cell, took candidates away, recalculated and went
\* through a second pass to return true
C17_Witness ==
  /\ prop.pc = "returned"
  /\ prop.ok
  /\ prop.passes >= 1
  /\ prop.removed # {}
  /\ \E c \in Cells :
       prop.start[c].value = NoValue /\ prop.cells[c].value # NoValue
  /\ \E c \in Cells : prop.cells[c].value = NoValue

\* C18: after a cell edit that changed the board, an undo leaves the cells as
\* they were immediately before the edit, and a redo after that undo leaves
\* them as they were immediately after the edit, whatever came before.
C18_UndoRedoRestoreEdit ==
  /\ store.pc # "none" /\ store.edit.phase = "undone" =>
       store.cells = store.edit.before
  /\ store.pc # "none" /\ store.edit.phase = "redone" =>
       store.cells = store.edit.after

\* C19: when one or more undos were followed by a new cell edit, historyIndex
\* is the last index of history (no snapshot is left to redo), and a redo
\* called next changes neither the cells nor the history.
C19_EditAfterUndoDropsRedo ==
  /\ store.pc # "none" /\ store.branch = "branched" =>
       /\ store.historyIndex = Len(store.history) - 1
       /\ redo(store) = store
  /\ store.pc # "none" /\ store.branch = "redone" =>
       /\ store.lastOp.same
       /\ store.historyIndex = Len(store.history) - 1

\* a full session that ends with undos, a new edit and a redo
\* that did nothing, on a board other than the oldest snapshot
C19_Witness ==
  /\ store.pc = "ready"
  /\ store.branch = "redone"
  /\ store.lastOp.name = "redo"
  /\ ~store.lastOp.acted
  /\ store.ops = MaxOps
  /\ store.cells # store.history[1]

\* C20: setCell, setCellById, clearCell and togglePencilMark on a given cell
\* leave cells and history unchanged; Grid.clearCell does not empty a given
\* cell; solve, showSolution, applySolution and reset keep the value and the
\* given flag of every given cell.
C20_GivenCellsImmutable ==
  store.pc # "none" =>
    /\ store.lastOp.name \in Edits /\ store.lastOp.onGiven =>
         store.lastOp.same
    /\ \A c \in Cells :
         store.cells[c].isGiven => clearCell(store.cells, c) = store.cells
    /\ store.lastOp.name \in {"solve", "showSolution", "reset"} =>
         store.lastOp.givensKept
    /\ \A i \in 1 .. Len(store.solutions) :
         With(applySolution(store.cells, store.solutions[i]), LAMBDA applied :
           \A c \in Cells :
             store.cells[c].isGiven =>
               /\ applied[c].isGiven
               /\ applied[c].value = store.cells[c].value)

\* showSolution has run on a board with a given cell whose value is not the
\* one the solution has for it
C20_Witness ==
  /\ store.pc = "ready"
  /\ store.lastOp.name = "showSolution"
  /\ store.lastOp.acted
  /\ \E c \in Cells :
       /\ store.cells[c].isGiven
       /\ store.cells[c].value # store.solutions[1][c]

\* the filled cells of b that share their value with another cell of one of
\* their units
Clashing(b) ==
  {c \in Cells :
     /\ b[c].value # NoValue
     /\ \E u \in UnitSets :
          c \in u /\ \E p \in u \ {c} : b[p].value = b[c].value}

\* C21: validate reports exactly the filled cells that share their value with
\* a peer, each once, valid is true exactly when there is none, and with a
\* reported cell every peer holding the same value is reported.
C21_ValidateReportsClashes ==
  (pc = "done" /\ op = "validate") =>
    /\ Range(result.conflicts) = Clashing(board)
    /\ Len(result.conflicts) = Cardinality(Clashing(board))
    /\ result.valid <=> Clashing(board) = {}
    /\ \A c \in Range(result.conflicts) :
         \A u \in UnitSets :
           c \in u =>
             \A p \in u \ {c} :
               board[p].value = board[c].value =>
                 p \in Range(result.conflicts)

\* validate has run on a board where a value entered by the user clashes in
\* its row and in its column
C21_Witness ==
  /\ pc = "done"
  /\ op = "validate"
  /\ ~result.valid
  /\ Len(result.conflicts) >= 3

\* the positions of a search that has begun and not yet returned
Searching == {"call", "loop", "ret", "ahead", "ayield", "return"}

\* C22: once the finder holds maxSolutions solutions, no step of the search
\* counts a further node, records a further solution, opens a frame or moves
\* on to a further value of an open frame.
C22_NoWorkAfterSolutionLimit ==
  [][(/\ pc \in Searching
      /\ opts.finder
      /\ Len(solutions) >= opts.maxSolutions)
     => /\ nodesExplored' = nodesExplored
        /\ solutions' = solutions
        /\ Len(stack') <= Len(stack)
        /\ \A i \in 1 .. Len(stack') :
             stack'[i].valueIndex = stack[i].valueIndex]_vars

\* hasUniqueSolution has recorded its second solution while a frame still
\* had a value left to try
C22_Witness ==
  /\ op = "hasUnique"
  /\ pc = "ret"
  /\ Len(solutions) = 2
  /\ stack # <<>>
  /\ \E i \in 1 .. Len(stack) :
       stack[i].valueIndex < Len(stack[i].orderedValues)

----------------------------------------------------------------------------
\* the empty cells of unit u that have v among their candidates
Eligible(b, u, v) ==
  {c \in u : b[c].value = NoValue /\ v \in b[c].possibleValues}

\* the values no cell of unit u holds
Missing(b, u) == {v \in Vals : \A c \in u : b[c].value # v}

\* C23: when propagate returns true no deduction is left: every empty cell
\* has at least two candidates and, in every unit, every value not yet placed
\* is a candidate of at least two empty cells of the unit.  When it returns
\* false the grid holds an empty cell without candidates or a unit with a
\* missing value that no empty cell of the unit can take.
C23_PropagateReachesFixpoint ==
  prop.pc = "returned" =>
    IF prop.ok
    THEN /\ \A c \in Cells : prop.cells[c].value = NoValue =>
              Cardinality(prop.cells[c].possibleValues) >= 2
         /\ \A u \in UnitSets : \A v \in Missing(prop.cells, u) :
              Cardinality(Eligible(prop.cells, u, v)) >= 2
    ELSE \/ \E c \in Cells : /\ prop.cells[c].value = NoValue
                             /\ prop.cells[c].possibleValues = {}
         \/ \E u \in UnitSets : \E v \in Missing(prop.cells, u) :
              Eligible(prop.cells, u, v) = {}

\* a call that placed values over more than one pass and returned true with
\* cells still empty
C23_Witness ==
  /\ prop.pc = "returned" /\ prop.ok /\ prop.passes >= 1
  /\ \E c \in Cells : prop.cells[c].value = NoValue
  /\ \E c \in Cells : prop.start[c].value = NoValue /\ prop.cells[c].value # NoValue

\* a call that returned false
PropagateReturnedFalse == prop.pc = "returned" /\ ~prop.ok

----------------------------------------------------------------------------
\* the grid of the call is as calculatePossibleValues left it: the call has
\* just begun, or a pass has just begun after the recalculation
Calculated ==
  /\ prop.pc \in {"naked", "hidden"}
  /\ prop.i = 1
  /\ prop.k = 0

\* C24: on a board that has a valid completion, after calculatePossibleValues
\* the candidates of every empty cell contain the value the cell has in each
\* completion; and propagate, called on a board that has a completion, never
\* returns false and never places a value that no completion has in the cell.
C24_EliminationIsSound ==
  /\ Calculated =>
       With(Completions(prop.cells), LAMBDA comps :
         \A c \in Cells : prop.cells[c].value = NoValue =>
           \A w \in comps : w[c] \in prop.cells[c].possibleValues)
  /\ With(Completions(prop.start), LAMBDA comps :
       comps # {} =>
         /\ ~(prop.pc = "returned" /\ ~prop.ok)
         /\ \A c \in Cells :
              (prop.start[c].value = NoValue /\ prop.cells[c].value # NoValue)
                => \E w \in comps : w[c] = prop.cells[c].value)

\* propagate has placed values on a board with several completions and has
\* returned
C24_Witness ==
  /\ prop.pc = "returned"
  /\ Cardinality(Completions(prop.start)) >= 2
  /\ \E c \in Cells : prop.start[c].value = NoValue /\ prop.cells[c].value # NoValue
  /\ \E c \in Cells : /\ prop.cells[c].value = NoValue
                      /\ prop.cells[c].possibleValues # Vals

----------------------------------------------------------------------------
\* the empty cells of b
EmptyOf(b) == {c \in Cells : b[c].value = NoValue}

----------------------------------------------------------------------------
\* the grids a and b hold the same values, given flags and candidate sets
SameBoard(a, b) ==
  \A c \in Cells : /\ a[c].value = b[c].value
                   /\ a[c].isGiven = b[c].isGiven
                   /\ a[c].possibleValues = b[c].possibleValues

\* C26: a call of backtrack or searchRecursive leaves the grid as it
\* received it, whatever it returns: a call that returns before its loop
\* changes nothing, and a call that returns from or after its loop leaves the
\* values, given flags and candidate sets it had at entry.  Every value of
\* the loop is tried from that grid, and the snapshot a frame holds is that
\* grid whatever was done to the working grid since.
C26_BacktrackRestoresBoard ==
  /\ []((pc \in {"call", "loop", "ret"}) =>
          /\ \A i \in 1 .. Len(stack) :
               SameBoard(stack[i].snapshot, stack[i].entry)
          /\ (pc = "loop" => SameBoard(W, Top(stack).entry)))
  /\ [][/\ (pc \in {"loop", "ret"} /\ Len(stack') < Len(stack))
             => SameBoard(W', Top(stack).entry)
        /\ (pc = "call" /\ pc' = "ret") => W' = W]_vars

\* a call two levels deep has returned false to a frame whose loop had values
\* left, and the grid differs from the one the frame below received
C26_Witness ==
  /\ pc = "ret" /\ ~ret
  /\ Len(stack) >= 1
  /\ Len(solutions) >= 1
  /\ Top(stack).valueIndex < Len(Top(stack).orderedValues)
  /\ ~SameBoard(W, Top(stack).entry)

----------------------------------------------------------------------------
\* C27: at every point of a search, direct or cooperative, nodesExplored is at
\* most maxNodes and the number of recorded solutions is at most maxSolutions.
C27_BudgetsNeverExceeded ==
  (pc \in Searching \cup {"done"}) =>
    /\ nodesExplored <= opts.maxNodes
    /\ Len(solutions) <= opts.maxSolutions

\* a cooperative search has used up its node budget with solutions recorded
\* and frames left to expand
C27_Witness ==
  /\ op = "findAsync"
  /\ pc \in Searching
  /\ nodesExplored = opts.maxNodes
  /\ solutions # <<>>
  /\ stack # <<>>

----------------------------------------------------------------------------
\* every cell of b holds a value and every row, column and box holds each
\* value exactly once
FilledAndValid(b) ==
  /\ \A c \in Cells : b[c].value \in Vals
  /\ \A u \in UnitSets : \A v \in Vals :
       Cardinality({c \in u : b[c].value = v}) = 1

\* C28: after any sequence of store operations, whenever status is SOLVED the
\* grid is completely filled and every row, column and box holds each value
\* exactly once.
C28_SolvedStatusMeansSolvedGrid ==
  (store.pc = "ready" /\ store.status = "solved") => FilledAndValid(store.cells)

----------------------------------------------------------------------------
\* the calls of findAllSolutions that have not finished and whose signal is
\* not aborted
Running == {i \in 1 .. Len(store.calls) :
              ~store.calls[i].done /\ ~store.calls[i].s.aborted}

\* C29: while a call of findAllSolutions is running, isSearching is true and
\* the controller cancelSearch aborts is the one whose signal the running
\* search reads, also after an earlier, cancelled search has finished in
\* between.
C29_RunningSearchCanBeCancelled ==
  \A i \in Running : store.isSearching /\ store.controller = i

\* C30: when findAllSolutions was called while an earlier call had not
\* finished, the earlier search is cancelled, and once both calls have
\* finished solutions, searchResult and the solution shown in the grid are
\* those of the later call.
C30_LaterSearchWins ==
  (Len(store.calls) = MaxCalls /\ store.calls[MaxCalls].overlaps) =>
    /\ store.calls[1].s.aborted
    /\ (\A i \in 1 .. MaxCalls : store.calls[i].done) =>
         With(store.calls[MaxCalls].result, LAMBDA later :
           /\ store.solutions = later.solutions
           /\ store.searchResult = later
           /\ later.solutions # <<>> =>
                \A c \in Cells : ~store.cells[c].isGiven =>
                  store.cells[c].value = later.solutions[1][c])

====
